---- MODULE Spec2Model ----
(***************************************************************************)
(* A model of the Blender -> Darts scene exporter (blender-darts-export).  *)
(*                                                                         *)
(* Python values are modelled as follows.                                  *)
(*   - a float x is the integer 10*x (tenths): 0.5 is 5, 1.0 is 10;        *)
(*   - a number is Num(n), a homogeneous list of floats is Vec(s), None is *)
(*     NoneV, a string value is Str(s), a bool is Bool(b); a list whose    *)
(*     elements carry their own Python types is PyList(items);             *)
(*   - a dict (a descriptor) is a function from its string keys; the keys  *)
(*     "type" and "name" map to plain strings, every other key to a value. *)
(* A call that can raise returns a result record [exc, val, warn]: the     *)
(* exception class that left the call ("none" when it returned), the value *)
(* returned, and the number of ctx.report warnings issued inside the call. *)
(***************************************************************************)
EXTENDS Integers, Sequences, FiniteSets, TLC

(***************************************************************************)
(* Values                                                                  *)
(***************************************************************************)
Num(n) == [k |-> "num", n |-> n]
Vec(s) == [k |-> "vec", s |-> s]
\* a list of products of two floats: its entries are in hundredths
Vec100(s) == [k |-> "vec", s |-> s, per |-> 100]
Str(s) == [k |-> "str", s |-> s]
Bool(b) == [k |-> "bool", b |-> b]
PyList(items) == [k |-> "list", items |-> items]
NoneV == [k |-> "none"]

IsDict(v) == "type" \in DOMAIN v
IsNum(v) == "k" \in DOMAIN v /\ v.k = "num"
IsVec(v) == "k" \in DOMAIN v /\ v.k = "vec"
IsNone(v) == "k" \in DOMAIN v /\ v.k = "none"

Range(s) == {s[i] : i \in 1..Len(s)}

(***************************************************************************)
(* Results of calls                                                        *)
(***************************************************************************)
Ok(v) == [exc |-> "none", val |-> v, warn |-> 0]
Raise(e) == [exc |-> e, val |-> NoneV, warn |-> 0]
Failed(r) == r.exc # "none"
\* n warnings were reported before the call r ran
WithWarn(n, r) == [r EXCEPT !.warn = @ + n]

RECURSIVE SumWarn(_, _)
SumWarn(rs, n) == IF n = 0 THEN 0 ELSE rs[n].warn + SumWarn(rs, n - 1)

FirstFailed(rs) ==
    IF \E i \in 1..Len(rs) : Failed(rs[i])
    THEN CHOOSE i \in 1..Len(rs) :
            Failed(rs[i]) /\ \A j \in 1..(i - 1) : ~Failed(rs[j])
    ELSE 0

\* Python evaluates the calls rs[1], rs[2], ... in order and stores their values
\* under the keys ks[1], ks[2], ...; the first call that raises ends the
\* evaluation, with the warnings reported up to that point.
Fields(ks, rs) ==
    LET b == FirstFailed(rs)
        idx(key) == CHOOSE i \in 1..Len(ks) : ks[i] = key
    IN  IF b # 0
        THEN [exc |-> rs[b].exc, val |-> NoneV, warn |-> SumWarn(rs, b)]
        ELSE [exc |-> "none",
              val |-> [key \in Range(ks) |-> rs[idx(key)].val],
              warn |-> SumWarn(rs, Len(rs))]

\* dict.update: the entries of new replace those of old
Update(old, new) == new @@ old

\* the result r, whose value (when it returned) is replaced by v
Returning(r, v) == IF Failed(r) THEN r ELSE [r EXCEPT !.val = v]

(***************************************************************************)
(* Sockets and links                                                       *)
(***************************************************************************)
\* a socket is [default_value, links]; links is the empty sequence or one link
\* [from_node, from_socket], from_socket being the name of the output socket
is_linked(socket) == Len(socket.links) > 0
Unlinked(v) == [default_value |-> v, links |-> <<>>]
Linked(node, out) ==
    [default_value |-> Num(0),
     links |-> <<[from_node |-> node, from_socket |-> out]>>]
LinkedWithDefault(node, out, v) ==
    [default_value |-> v,
     links |-> <<[from_node |-> node, from_socket |-> out]>>]

RECURSIVE follow_link(_)
follow_link(socket) ==
    IF is_linked(socket) /\ socket.links[1].from_node.bl_idname = "NodeReroute"
    THEN follow_link(socket.links[1].from_node.inputs["Input"])
    ELSE socket

(***************************************************************************)
(* SceneWriter.color: the value normalizer                                 *)
(***************************************************************************)
IsNumberType(t) == t \in {"float", "int"}

color(value) ==
    CASE value.k = "num" -> Ok(value)
      [] value.k = "vec" ->
            IF Len(value.s) = 0 THEN Raise("IndexError")
            ELSE IF Len(value.s) \in {3, 4}
            THEN Ok([value EXCEPT !.s = SubSeq(value.s, 1, 3)])
            ELSE IF Len(value.s) = 1
            THEN Ok([k |-> "num", n |-> value.s[1]]
                    @@ [f \in DOMAIN value \ {"k", "s"} |-> value[f]])
            ELSE Raise("ValueError")
      [] value.k = "list" ->
            LET items == value.items IN
            IF \E i \in 1..Len(items) : items[i].t \notin {"float", "int", "tuple"}
            THEN Raise("ValueError")
            ELSE IF \E i \in 1..(Len(items) - 1) : items[i].t # items[i + 1].t
            THEN Raise("ValueError")
            ELSE IF Len(items) = 0 THEN Raise("IndexError")
            ELSE IF IsNumberType(items[1].t)
            THEN IF Len(items) \in {3, 4}
                 THEN Ok(Vec([i \in 1..3 |-> items[i].v]))
                 ELSE IF Len(items) = 1 THEN Ok(Num(items[1].v))
                 ELSE Raise("ValueError")
            ELSE Ok(Num(0))

\* a string that names something is a sequence of tokens, the token " " being a
\* space: "Mat A" is <<"Mat", " ", "A">>
material_name(b_name) ==
    [i \in 1..Len(b_name) |-> IF b_name[i] = " " THEN "_" ELSE b_name[i]]

\* textures.dummy_color: ctx.color([0.0, 1.0, 0.3])
dummy_color == color(Vec(<<0, 10, 3>>))

\* ctx.enable_<flag>
\* (enabledAlways: an exporter that ignores the capability flags)
enabledAlways(ctx, flag) == TRUE
enabled(ctx, flag) == flag \notin ctx.disabled

\* str.lower() and the replace() calls on the enum names the nodes carry
lower(s) ==
    CASE s = "BANDS" -> "bands" [] s = "RINGS" -> "rings"
      [] s = "X" -> "x" [] s = "Y" -> "y" [] s = "SPHERICAL" -> "spherical"
      [] s = "F1" -> "f1" [] s = "SMOOTH_F1" -> "smooth f1"
      [] s = "EUCLIDEAN" -> "euclidean"
      [] s = "FBM" -> "fbm" [] s = "RIDGED_MULTIFRACTAL" -> "ridged multifractal"
      [] s = "Linear" -> "linear" [] s = "Closest" -> "closest"
      [] s = "FLAT" -> "flat" [] s = "BOX" -> "box"
      [] s = "MIX" -> "mix" [] s = "LINEAR_LIGHT" -> "linear light"
      [] s = "MINMAX" -> "minmax" [] s = "RANGE" -> "range"
      [] s = "POINT" -> "point" [] s = "TEXTURE" -> "texture"
      [] s = "RGB" -> "rgb" [] s = "HSV" -> "hsv"
      [] s = "LINEAR" -> "linear" [] s = "B_SPLINE" -> "b-spline"
      [] s = "NEAR" -> "near" [] s = "QUADRATIC_SPHERE" -> "quadratic sphere"
      [] s = "ADD" -> "add" [] s = "MULTIPLY_ADD" -> "multiply add"
      [] s = "Color" -> "color" [] s = "Fac" -> "fac" [] s = "Alpha" -> "alpha"
      [] s = "Value" -> "value" [] s = "Distance" -> "distance"
      [] s = "UV" -> "uv" [] s = "Generated" -> "generated"
      [] s = "Is Camera Ray" -> "is camera ray"
      [] s = "R" -> "r" [] s = "Z" -> "z" [] s = "Vector" -> "vector"
      [] s = "Fresnel" -> "fresnel" [] s = "Facing" -> "facing"

(***************************************************************************)
(* textures.py: the texture node converters                                *)
(***************************************************************************)
texture_exts ==
    [BMP |-> ".bmp", HDR |-> ".hdr", JPEG |-> ".jpg", JPEG2000 |-> ".jpg",
     PNG |-> ".png", OPEN_EXR |-> ".exr", OPEN_EXR_MULTILAYER |-> ".exr",
     TARGA |-> ".tga", TARGA_RAW |-> ".tga"]
convert_format == [CINEON |-> "EXR", DPX |-> "EXR", TIFF |-> "PNG", IRIS |-> "PNG"]

StartsWith(s, p) == Len(p) <= Len(s) /\ SubSeq(s, 1, Len(p)) = p
\* os.path.splitext(name)[0]: the last token is dropped when it is an extension
SplitExtBase(s) ==
    IF Len(s) > 1 /\ s[Len(s)] \in {".png", ".jpg", ".exr", ".tga", ".bmp", ".hdr"}
    THEN SubSeq(s, 1, Len(s) - 1) ELSE s

\* image is [name, filepath, file_format, colorspace]; filepath is the basename
export_image(ctx, image) ==
    LET fmt == IF image.file_format \in DOMAIN convert_format
               THEN convert_format[image.file_format] ELSE image.file_format
        original_name == image.filepath
        stem == IF original_name # <<>> /\ StartsWith(image.name, original_name)
                THEN SplitExtBase(original_name)
                     \o SubSeq(image.name, Len(original_name) + 1, Len(image.name))
                ELSE image.name
    IN  IF fmt \notin DOMAIN texture_exts THEN Raise("KeyError")
        ELSE Ok(Str(<<"textures/">> \o stem \o <<texture_exts[fmt]>>))

dimensions == [d \in {"1D", "2D", "3D", "4D"} |->
                 CASE d = "1D" -> 1 [] d = "2D" -> 2 [] d = "3D" -> 3 [] d = "4D" -> 4]

\* SceneWriter.LRS_matrix; an angle is a number of quarter turns, degrees() of
\* which is 90 times that number
LRS_matrix(loc, rot, sca) ==
    PyList((IF sca # <<10, 10, 10>> THEN <<[scale |-> sca]>> ELSE <<>>)
           \o (IF rot # <<0, 0, 0>>
               THEN <<[rotate |-> <<90 * rot[1], 1, 0, 0>>],
                      [rotate |-> <<90 * rot[2], 0, 1, 0>>],
                      [rotate |-> <<90 * rot[3], 0, 0, 1>>]>>
               ELSE <<>>)
           \o (IF loc # <<0, 0, 0>> THEN <<[translate |-> loc]>> ELSE <<>>))

RECURSIVE convert_texture_node(_, _)

\* the optional "vector" entry: if node.inputs["Vector"].is_linked
VectorKeys(node) == IF is_linked(node.inputs["Vector"]) THEN <<"vector">> ELSE <<>>
VectorCalls(ctx, node) ==
    IF is_linked(node.inputs["Vector"])
    THEN <<convert_texture_node(ctx, node.inputs["Vector"])>> ELSE <<>>

\* the colorspace check shared by the image and the environment texture
ColorspaceWarnings(image) ==
    IF image.colorspace \in {"Non-Color", "Raw", "Linear"} THEN 0
    ELSE IF image.colorspace # "sRGB" THEN 1 ELSE 0

convert_image_texture_node(ctx, out_socket) ==
    LET node == out_socket.from_node
        file == export_image(ctx, node.image)
        raw == IF node.image.colorspace \in {"Non-Color", "Raw", "Linear"}
               THEN "raw" :> Bool(TRUE) ELSE <<>>
        w1 == ColorspaceWarnings(node.image)
        w2 == IF node.extension = "CLIP" THEN 1 ELSE 0
        modes == [REPEAT |-> "repeat", EXTEND |-> "CLAMP", CLIP |-> "black"]
        vec == Fields(VectorKeys(node), VectorCalls(ctx, node))
    IN  IF Failed(file) THEN file
        ELSE IF out_socket.from_socket \notin {"Color", "Alpha"}
        THEN WithWarn(w1, Raise("NotImplementedError"))
        ELSE WithWarn(w1 + w2,
               Returning(vec,
                 Update([type |-> "image",
                         filename |-> file.val,
                         interpolation |-> Str(lower(node.interpolation)),
                         projection |-> Str(lower(node.projection)),
                         output |-> Str(lower(out_socket.from_socket))]
                        @@ ("projection blend" :> node.projection_blend)
                        @@ ("wrap mode x" :> Str(modes[node.extension]))
                        @@ ("wrap mode y" :> Str(modes[node.extension]))
                        @@ raw,
                        vec.val)))

convert_environment_texture_node(ctx, out_socket) ==
    LET node == out_socket.from_node
        file == export_image(ctx, node.image)
        raw == IF node.image.colorspace \in {"Non-Color", "Raw", "Linear"}
               THEN "raw" :> Bool(TRUE) ELSE <<>>
        w1 == ColorspaceWarnings(node.image)
        w2 == IF node.projection # "EQUIRECTANGULAR" THEN 1 ELSE 0
        vec == Fields(VectorKeys(node), VectorCalls(ctx, node))
    IN  IF Failed(file) THEN file
        ELSE WithWarn(w1 + w2,
               Returning(vec,
                 Update([type |-> "envmap",
                         filename |-> file.val,
                         output |-> Str("color"),
                         interpolation |-> Str(lower(node.interpolation))] @@ raw,
                        vec.val)))

convert_checker_texture_node(ctx, out_socket) ==
    LET node == out_socket.from_node
        f == Fields(<<"scale", "color1", "color2">> \o VectorKeys(node),
                    <<convert_texture_node(ctx, node.inputs["Scale"]),
                      convert_texture_node(ctx, node.inputs["Color1"]),
                      convert_texture_node(ctx, node.inputs["Color2"])>>
                    \o VectorCalls(ctx, node))
    IN  IF ~enabled(ctx, "checker") THEN dummy_color
        ELSE IF is_linked(node.inputs["Scale"]) THEN Raise("NotImplementedError")
        ELSE Returning(f, Update([type |-> "checker"], f.val))

convert_brick_texture_node(ctx, out_socket) ==
    LET node == out_socket.from_node
        f == Fields(<<"color1", "color2", "mortar", "scale", "mortar size",
                      "mortar smooth", "bias", "brick width", "row height">>
                    \o VectorKeys(node),
                    <<convert_texture_node(ctx, node.inputs["Color1"]),
                      convert_texture_node(ctx, node.inputs["Color2"]),
                      convert_texture_node(ctx, node.inputs["Mortar"]),
                      convert_texture_node(ctx, node.inputs["Scale"]),
                      convert_texture_node(ctx, node.inputs["Mortar Size"]),
                      convert_texture_node(ctx, node.inputs["Mortar Smooth"]),
                      convert_texture_node(ctx, node.inputs["Bias"]),
                      convert_texture_node(ctx, node.inputs["Brick Width"]),
                      convert_texture_node(ctx, node.inputs["Row Height"])>>
                    \o VectorCalls(ctx, node))
    IN  IF ~enabled(ctx, "brick") THEN dummy_color
        ELSE Returning(f,
               Update([type |-> "brick",
                       offset |-> node.offset,
                       squash |-> node.squash,
                       output |-> Str(IF out_socket.from_socket = "Fac"
                                      THEN "float" ELSE "color")]
                      @@ ("offset frequency" :> node.offset_frequency)
                      @@ ("squash frequency" :> node.squash_frequency),
                      f.val))

convert_wave_texture_node(ctx, out_socket) ==
    LET node == out_socket.from_node
        profiles == [SIN |-> "sine", SAW |-> "saw", TRI |-> "triangle"]
        f == Fields(<<"scale", "distortion", "detail", "detail scale",
                      "detail roughness", "phase offset">> \o VectorKeys(node),
                    <<convert_texture_node(ctx, node.inputs["Scale"]),
                      convert_texture_node(ctx, node.inputs["Distortion"]),
                      convert_texture_node(ctx, node.inputs["Detail"]),
                      convert_texture_node(ctx, node.inputs["Detail Scale"]),
                      convert_texture_node(ctx, node.inputs["Detail Roughness"]),
                      convert_texture_node(ctx, node.inputs["Phase Offset"])>>
                    \o VectorCalls(ctx, node))
    IN  IF ~enabled(ctx, "wave") THEN color(Num(5))
        ELSE IF node.wave_profile \notin DOMAIN profiles THEN Raise("KeyError")
        ELSE Returning(f,
               Update([type |-> "wave",
                       direction |-> Str(IF node.wave_type = "BANDS"
                                         THEN lower(node.bands_direction)
                                         ELSE lower(node.rings_direction)),
                       profile |-> Str(profiles[node.wave_profile])]
                      @@ ("wave type" :> Str(lower(node.wave_type))),
                      f.val))

\* the "w" and "vector" entries of the procedural textures
\* (WKeysFourOnly: a conversion that forgets the one-dimensional case)
WKeysFourOnly(dims) == IF dims = 4 THEN <<"w">> ELSE <<>>
WKeys(dims) == IF dims = 1 \/ dims = 4 THEN <<"w">> ELSE <<>>
WCalls(ctx, node, dims) ==
    IF dims = 1 \/ dims = 4
    THEN <<convert_texture_node(ctx, node.inputs["W"])>> ELSE <<>>
DimVectorKeys(node, dims) ==
    IF dims # 1 /\ is_linked(node.inputs["Vector"]) THEN <<"vector">> ELSE <<>>
DimVectorCalls(ctx, node, dims) ==
    IF dims # 1 /\ is_linked(node.inputs["Vector"])
    THEN <<convert_texture_node(ctx, node.inputs["Vector"])>> ELSE <<>>

convert_white_noise_texture_node(ctx, out_socket) ==
    LET node == out_socket.from_node
        dims == dimensions[node.noise_dimensions]
        f == Fields(WKeys(dims) \o DimVectorKeys(node, dims),
                    WCalls(ctx, node, dims) \o DimVectorCalls(ctx, node, dims))
    IN  IF node.noise_dimensions \notin DOMAIN dimensions THEN Raise("KeyError")
        ELSE Returning(f,
               Update(("type" :> "white noise")
                      @@ [dimensions |-> Num(10 * dims),
                          output |-> Str(IF out_socket.from_socket = "Value"
                                         THEN "float" ELSE "color")],
                      f.val))

convert_noise_texture_node(ctx, out_socket) ==
    LET node == out_socket.from_node
        dims == dimensions[node.noise_dimensions]
        f == Fields(<<"scale", "detail", "roughness", "lacunarity", "distortion">>
                    \o WKeys(dims) \o DimVectorKeys(node, dims),
                    <<convert_texture_node(ctx, node.inputs["Scale"]),
                      convert_texture_node(ctx, node.inputs["Detail"]),
                      convert_texture_node(ctx, node.inputs["Roughness"]),
                      convert_texture_node(ctx, node.inputs["Lacunarity"]),
                      convert_texture_node(ctx, node.inputs["Distortion"])>>
                    \o WCalls(ctx, node, dims) \o DimVectorCalls(ctx, node, dims))
    IN  IF ~enabled(ctx, "noise") THEN color(Num(5))
        ELSE IF node.noise_dimensions \notin DOMAIN dimensions THEN Raise("KeyError")
        ELSE Returning(f,
               Update([type |-> "noise",
                       dimensions |-> Num(10 * dims),
                       normalize |-> Bool(node.normalize),
                       output |-> Str(IF out_socket.from_socket = "Fac"
                                      THEN "float" ELSE "color")],
                      f.val))

convert_voronoi_texture_node(ctx, out_socket) ==
    LET node == out_socket.from_node
        dims == dimensions[node.voronoi_dimensions]
        feature == lower(node.feature)
        f == Fields(<<"scale", "randomness">>
                    \o (IF feature = "smooth f1" THEN <<"smoothness">> ELSE <<>>)
                    \o WKeys(dims) \o DimVectorKeys(node, dims),
                    <<convert_texture_node(ctx, node.inputs["Scale"]),
                      convert_texture_node(ctx, node.inputs["Randomness"])>>
                    \o (IF feature = "smooth f1"
                        THEN <<convert_texture_node(ctx, node.inputs["Smoothness"])>>
                        ELSE <<>>)
                    \o WCalls(ctx, node, dims) \o DimVectorCalls(ctx, node, dims))
    IN  IF ~enabled(ctx, "voronoi") THEN color(Num(5))
        ELSE IF node.voronoi_dimensions \notin DOMAIN dimensions THEN Raise("KeyError")
        ELSE Returning(f,
               Update([type |-> "voronoi",
                       dimensions |-> Num(10 * dims),
                       feature |-> Str(feature),
                       distance |-> Str(lower(node.distance)),
                       output |-> Str(lower(out_socket.from_socket))],
                      f.val))

convert_musgrave_texture_node(ctx, out_socket) ==
    LET node == out_socket.from_node
        dims == dimensions[node.noise_dimensions]
        f == Fields(<<"scale", "detail", "dimension", "lacunarity", "offset", "gain">>
                    \o WKeys(dims) \o DimVectorKeys(node, dims),
                    <<convert_texture_node(ctx, node.inputs["Scale"]),
                      convert_texture_node(ctx, node.inputs["Detail"]),
                      convert_texture_node(ctx, node.inputs["Dimension"]),
                      convert_texture_node(ctx, node.inputs["Lacunarity"]),
                      convert_texture_node(ctx, node.inputs["Offset"]),
                      convert_texture_node(ctx, node.inputs["Gain"])>>
                    \o WCalls(ctx, node, dims) \o DimVectorCalls(ctx, node, dims))
    IN  IF ~enabled(ctx, "musgrave") THEN color(Num(5))
        ELSE IF node.noise_dimensions \notin DOMAIN dimensions THEN Raise("KeyError")
        ELSE Returning(f,
               Update([type |-> "musgrave", dimensions |-> Num(10 * dims)]
                      @@ ("fractal type" :> Str(lower(node.musgrave_type))),
                      f.val))

\* 1.0 / max(1.0 - blend, 1e-5), in tenths, for a blend given in tenths
\* (LayerWeightIorUnguarded: a conversion without the max() that keeps the
\* divisor positive)
LayerWeightIorUnguarded(blend) ==
    100 \div (IF 10 - blend # 0 THEN 10 - blend ELSE 1)
LayerWeightIor(blend) ==
    IF 10 - blend > 0 THEN 100 \div (10 - blend) ELSE 1000000

convert_layer_weight_node(ctx, out_socket) ==
    LET node == out_socket.from_node
        f == Fields(<<"blend">>, <<convert_texture_node(ctx, node.inputs["Blend"])>>)
    IN  IF ~enabled(ctx, "layer_weight") THEN color(Num(5))
        ELSE IF out_socket.from_socket = "Fresnel"
        THEN WithWarn(IF is_linked(node.inputs["Blend"]) THEN 1 ELSE 0,
                      Ok([type |-> "fresnel",
                          ior |-> Num(LayerWeightIor(node.inputs["Blend"].default_value.n))]))
        ELSE IF out_socket.from_socket = "Facing"
        THEN Returning(f, Update([type |-> "facing"], f.val))
        ELSE Raise("NotImplementedError")

convert_mix_rgb_node(ctx, out_socket) ==
    LET node == out_socket.from_node
        f == Fields(<<"factor", "a", "b">>,
                    <<convert_texture_node(ctx, node.inputs["Fac"]),
                      convert_texture_node(ctx, node.inputs["Color1"]),
                      convert_texture_node(ctx, node.inputs["Color2"])>>)
    IN  IF ~enabled(ctx, "mix_rgb") THEN dummy_color
        ELSE Returning(f,
               Update(("type" :> "mix")
                      @@ ("blend type" :> Str(lower(node.blend_type)))
                      @@ ("clamp result" :> Bool(node.use_clamp)),
                      f.val))

convert_mix_node(ctx, out_socket) ==
    LET node == out_socket.from_node
        f == Fields(<<"factor", "a", "b">>,
                    <<convert_texture_node(ctx, node.inputs["Fac"]),
                      convert_texture_node(ctx, node.inputs["Color1"]),
                      convert_texture_node(ctx, node.inputs["Color2"])>>)
    IN  IF ~enabled(ctx, "mix_node") THEN dummy_color
        ELSE IF node.data_type # "RGBA" /\ node.data_type # "FLOAT"
        THEN Raise("NotImplementedError")
        ELSE Returning(f,
               Update(("type" :> "mix")
                      @@ ("blend type" :> Str(lower(node.blend_type)))
                      @@ ("clamp factor" :> Bool(node.clamp_factor))
                      @@ ("clamp result" :> Bool(node.clamp_result)),
                      f.val))

convert_clamp_node(ctx, out_socket) ==
    LET node == out_socket.from_node
        f == Fields(<<"value", "min", "max">>,
                    <<convert_texture_node(ctx, node.inputs["Value"]),
                      convert_texture_node(ctx, node.inputs["Min"]),
                      convert_texture_node(ctx, node.inputs["Max"])>>)
    IN  IF ~enabled(ctx, "clamp") THEN dummy_color
        ELSE Returning(f,
               Update(("type" :> "clamp")
                      @@ ("clamp type" :> Str(lower(node.clamp_type))),
                      f.val))

convert_fresnel_node(ctx, out_socket) ==
    LET node == out_socket.from_node
    IN  IF ~enabled(ctx, "fresnel") THEN color(Num(5))
        ELSE WithWarn(IF is_linked(node.inputs["IOR"]) THEN 1 ELSE 0,
                      Ok([type |-> "fresnel", ior |-> node.inputs["IOR"].default_value]))

convert_rgb_node(ctx, out_socket) == color(out_socket.from_node.color)

convert_blackbody_node(ctx, out_socket) ==
    LET node == out_socket.from_node
        f == Fields(<<"temperature">>,
                    <<convert_texture_node(ctx, node.inputs["Temperature"])>>)
    IN  IF ~enabled(ctx, "blackbody") THEN dummy_color
        ELSE Returning(f, Update([type |-> "blackbody"], f.val))

convert_wavelength_node(ctx, out_socket) ==
    LET node == out_socket.from_node
        f == Fields(<<"wavelength">>,
                    <<convert_texture_node(ctx, node.inputs["Wavelength"])>>)
    IN  IF ~enabled(ctx, "wavelength") THEN dummy_color
        ELSE Returning(f, Update([type |-> "wavelength"], f.val))

convert_coord_texture_node(ctx, out_socket) ==
    LET node == out_socket.from_node
    IN  IF ~enabled(ctx, "coord") THEN dummy_color
        ELSE WithWarn(IF node.object # "None" THEN 1 ELSE 0,
                      Ok([type |-> "coord",
                          coordinate |-> Str(lower(out_socket.from_socket))]))

convert_mapping_node(ctx, out_socket) ==
    LET node == out_socket.from_node
        f == Fields(VectorKeys(node), VectorCalls(ctx, node))
    IN  IF ~enabled(ctx, "mapping") THEN Ok(NoneV)
        ELSE IF \/ is_linked(node.inputs["Location"])
                \/ is_linked(node.inputs["Rotation"])
                \/ is_linked(node.inputs["Scale"])
        THEN Raise("NotImplementedError")
        ELSE Returning(f,
               Update(("type" :> "mapping")
                      @@ ("vector type" :> Str(lower(node.vector_type)))
                      @@ ("transform" :>
                            LRS_matrix(node.inputs["Location"].default_value.s,
                                       node.inputs["Rotation"].default_value.s,
                                       node.inputs["Scale"].default_value.s)),
                      f.val))

convert_wireframe_texture_node(ctx, out_socket) ==
    LET node == out_socket.from_node
        f == Fields(<<"size">>, <<convert_texture_node(ctx, node.inputs["Size"])>>)
    IN  IF ~enabled(ctx, "wireframe") THEN dummy_color
        ELSE Returning(f,
               Update(("type" :> "wireframe")
                      @@ ("pixel size" :> Bool(node.use_pixel_size)),
                      f.val))

convert_light_path_texture_node(ctx, out_socket) ==
    Ok(("type" :> "light path") @@ [output |-> Str(lower(out_socket.from_socket))])

convert_color_attrib_node(ctx, out_socket) == Ok("type" :> "vertex colors")

convert_val_to_rgb_node(ctx, out_socket) ==
    LET node == out_socket.from_node
        ramp == node.color_ramp
        fac == convert_texture_node(ctx, node.inputs["Fac"])
        cs == [i \in 1..Len(ramp.elements) |-> color(ramp.elements[i].color)]
        b == FirstFailed(cs)
    IN  IF ~enabled(ctx, "color_ramp") THEN dummy_color
        ELSE IF Failed(fac) THEN fac
        ELSE IF b # 0 THEN WithWarn(fac.warn, Raise(cs[b].exc))
        ELSE WithWarn(fac.warn,
               Ok(("type" :> "color ramp")
                  @@ ("color mode" :> Str(lower(ramp.color_mode)))
                  @@ ("hue interpolation" :> Str(lower(ramp.hue_interpolation)))
                  @@ [factor |-> fac.val,
                      interpolation |-> Str(lower(ramp.interpolation)),
                      elements |-> PyList([i \in 1..Len(ramp.elements) |->
                                      [position |-> ramp.elements[i].position,
                                       color |-> cs[i].val,
                                       alpha |-> ramp.elements[i].alpha]]),
                      output |-> Str(IF out_socket.from_socket = "Alpha"
                                     THEN "float" ELSE "color")]))

convert_separate_node(ctx, out_socket) ==
    LET node == out_socket.from_node
        f == Fields(<<"input">>, <<convert_texture_node(ctx, node.inputs["Color"])>>)
    IN  IF ~enabled(ctx, "separate") THEN dummy_color
        \* node.inputs["Color"] is looked up before its truth value is tested
        ELSE IF "Color" \notin DOMAIN node.inputs THEN Raise("KeyError")
        ELSE Returning(f,
               Update([type |-> "separate",
                       mode |-> Str(IF node.mode # "" THEN lower(node.mode) ELSE "xyz"),
                       component |-> Str(lower(out_socket.from_socket))],
                      f.val))

convert_gradient_node(ctx, out_socket) ==
    LET node == out_socket.from_node
        f == Fields(<<"vector">>, <<convert_texture_node(ctx, node.inputs["Vector"])>>)
    IN  IF ~enabled(ctx, "gradient") THEN dummy_color
        ELSE Returning(f,
               Update(("type" :> "gradient")
                      @@ ("gradient type" :> Str(lower(node.gradient_type))),
                      f.val))

\* node.inputs is read by position: its keys are "0", "1" and "2"
convert_math_node(ctx, out_socket) ==
    LET node == out_socket.from_node
        n == Cardinality(DOMAIN node.inputs)
        f == Fields((IF n > 0 THEN <<"a">> ELSE <<>>)
                    \o (IF n > 1 THEN <<"b">> ELSE <<>>)
                    \o (IF n > 2 THEN <<"c">> ELSE <<>>),
                    (IF n > 0 THEN <<convert_texture_node(ctx, node.inputs["0"])>> ELSE <<>>)
                    \o (IF n > 1 THEN <<convert_texture_node(ctx, node.inputs["1"])>> ELSE <<>>)
                    \o (IF n > 2 THEN <<convert_texture_node(ctx, node.inputs["2"])>> ELSE <<>>))
    IN  IF ~enabled(ctx, "math") THEN dummy_color
        ELSE Returning(f,
               Update([type |-> "math",
                       operation |-> Str(lower(node.operation)),
                       clamp |-> Bool(node.use_clamp)],
                      f.val))

texture_converters ==
    {"ShaderNodeBlackbody", "ShaderNodeTexBrick", "ShaderNodeClamp",
     "ShaderNodeTexChecker", "ShaderNodeTexCoord", "ShaderNodeTexEnvironment",
     "ShaderNodeMapping", "ShaderNodeFresnel", "ShaderNodeTexImage",
     "ShaderNodeLayerWeight", "ShaderNodeMixRGB", "ShaderNodeMix",
     "ShaderNodeTexMusgrave", "ShaderNodeTexNoise", "ShaderNodeRGB",
     "ShaderNodeTexVoronoi", "ShaderNodeTexWave", "ShaderNodeWavelength",
     "ShaderNodeTexWhiteNoise", "ShaderNodeWireframe", "ShaderNodeLightPath",
     "ShaderNodeVertexColor", "ShaderNodeValToRGB", "ShaderNodeSeparateXYZ",
     "ShaderNodeSeparateColor", "ShaderNodeTexGradient", "ShaderNodeMath"}

\* texture_converters[node.bl_idname](ctx, from_socket)
TextureDispatch(ctx, l) ==
    LET id == l.from_node.bl_idname IN
    CASE id = "ShaderNodeBlackbody" -> convert_blackbody_node(ctx, l)
      [] id = "ShaderNodeTexBrick" -> convert_brick_texture_node(ctx, l)
      [] id = "ShaderNodeClamp" -> convert_clamp_node(ctx, l)
      [] id = "ShaderNodeTexChecker" -> convert_checker_texture_node(ctx, l)
      [] id = "ShaderNodeTexCoord" -> convert_coord_texture_node(ctx, l)
      [] id = "ShaderNodeTexEnvironment" -> convert_environment_texture_node(ctx, l)
      [] id = "ShaderNodeMapping" -> convert_mapping_node(ctx, l)
      [] id = "ShaderNodeFresnel" -> convert_fresnel_node(ctx, l)
      [] id = "ShaderNodeTexImage" -> convert_image_texture_node(ctx, l)
      [] id = "ShaderNodeLayerWeight" -> convert_layer_weight_node(ctx, l)
      [] id = "ShaderNodeMixRGB" -> convert_mix_rgb_node(ctx, l)
      [] id = "ShaderNodeMix" -> convert_mix_node(ctx, l)
      [] id = "ShaderNodeTexMusgrave" -> convert_musgrave_texture_node(ctx, l)
      [] id = "ShaderNodeTexNoise" -> convert_noise_texture_node(ctx, l)
      [] id = "ShaderNodeRGB" -> convert_rgb_node(ctx, l)
      [] id = "ShaderNodeTexVoronoi" -> convert_voronoi_texture_node(ctx, l)
      [] id = "ShaderNodeTexWave" -> convert_wave_texture_node(ctx, l)
      [] id = "ShaderNodeWavelength" -> convert_wavelength_node(ctx, l)
      [] id = "ShaderNodeTexWhiteNoise" -> convert_white_noise_texture_node(ctx, l)
      [] id = "ShaderNodeWireframe" -> convert_wireframe_texture_node(ctx, l)
      [] id = "ShaderNodeLightPath" -> convert_light_path_texture_node(ctx, l)
      [] id = "ShaderNodeVertexColor" -> convert_color_attrib_node(ctx, l)
      [] id = "ShaderNodeValToRGB" -> convert_val_to_rgb_node(ctx, l)
      [] id \in {"ShaderNodeSeparateXYZ", "ShaderNodeSeparateColor"} ->
            convert_separate_node(ctx, l)
      [] id = "ShaderNodeTexGradient" -> convert_gradient_node(ctx, l)
      [] id = "ShaderNodeMath" -> convert_math_node(ctx, l)

convert_texture_node(ctx, socket) ==
    IF is_linked(socket)
    THEN LET s == follow_link(socket) IN
         \* s.links[0] of a socket without links
         IF ~is_linked(s) THEN Raise("IndexError")
         ELSE IF s.links[1].from_node.bl_idname \in texture_converters
         THEN TextureDispatch(ctx, s.links[1])
         ELSE Raise("NotImplementedError")
    ELSE color(socket.default_value)


(***************************************************************************)
(* materials.py: the surface node converters                               *)
(***************************************************************************)
RoughnessMode ==
    [GGX |-> "ggx", BECKMANN |-> "beckmann", ASHIKHMIN_SHIRLEY |-> "blinn",
     MULTI_GGX |-> "ggx"]

\* (make_one_sided: an exporter that never adds the adapter)
make_one_sided(ctx, bsdf) == bsdf
make_two_sided(ctx, bsdf) ==
    IF ctx.force_two_sided
    THEN ("type" :> "two sided") @@ ("both sides" :> bsdf)
    ELSE bsdf

\* the descriptor head with the converted fields f, or the exception that the
\* conversion of a field raised
Described(f, head) == Returning(f, Update(head, f.val))

\* return make_two_sided(ctx, params), params being head with the fields f
TwoSidedDescribed(ctx, f, head) ==
    Returning(f, make_two_sided(ctx, Update(head, f.val)))

convert_diffuse_material(ctx, node) ==
    TwoSidedDescribed(ctx,
        Fields(<<"color", "roughness">>,
               <<convert_texture_node(ctx, node.inputs["Color"]),
                 convert_texture_node(ctx, node.inputs["Roughness"])>>),
        [type |-> "diffuse"])

\* an exact fraction num/den, den > 0
Ratio(num, den) == [k |-> "ratio", num |-> num, den |-> den]

\* roughness_to_blinn_exponent(pow(r, 2)) = max(2.0 / r^4 - 1.0, 0.0), for a
\* roughness of n tenths; n = 0 divides by zero
roughness_to_blinn_exponent(n) ==
    LET n4 == n * n * n * n
    IN  IF 20000 - n4 > 0 THEN Ratio(20000 - n4, n4) ELSE Ratio(0, 1)

\* Python truth value of a converted value
\* (TruthyAlways: a truth value that takes the number 0 for true)
TruthyAlways(v) == TRUE
Truthy(v) ==
    IF IsDict(v) THEN TRUE
    ELSE CASE v.k = "num" -> v.n # 0
           [] v.k = "vec" -> Len(v.s) > 0
           [] v.k = "none" -> FALSE
           [] OTHER -> TRUE

\* convert_glossy_material, roughness and col being the conversions of the
\* Roughness and the Color input
GlossyOf(ctx, node, roughness, col) ==
    LET rsock == node.inputs["Roughness"]
        sharp == node.distribution = "SHARP"
    IN  IF Failed(roughness) THEN roughness
        ELSE IF ctx.glossy_mode = "rough conductor"
        THEN IF sharp \/ (~is_linked(rsock) /\ rsock.default_value.n <= 0)
             THEN WithWarn(roughness.warn,
                    TwoSidedDescribed(ctx, Fields(<<"color">>, <<col>>),
                                      [type |-> "conductor"]))
             ELSE IF node.distribution \notin DOMAIN RoughnessMode
             THEN WithWarn(roughness.warn, Raise("KeyError"))
             ELSE TwoSidedDescribed(ctx,
                    Fields(<<"roughness">>
                           \o (IF "Anisotropy" \in DOMAIN node.inputs
                               THEN <<"anisotropy">> ELSE <<>>)
                           \o (IF "Rotation" \in DOMAIN node.inputs
                               THEN <<"rotation">> ELSE <<>>)
                           \o <<"color">>,
                           <<roughness>>
                           \o (IF "Anisotropy" \in DOMAIN node.inputs
                               THEN <<convert_texture_node(ctx, node.inputs["Anisotropy"])>>
                               ELSE <<>>)
                           \o (IF "Rotation" \in DOMAIN node.inputs
                               THEN <<convert_texture_node(ctx, node.inputs["Rotation"])>>
                               ELSE <<>>)
                           \o <<col>>),
                    [type |-> ctx.glossy_mode,
                     distribution |-> Str(RoughnessMode[node.distribution])])
        ELSE IF ctx.glossy_mode \in {"blinn-phong", "phong"}
        THEN IF is_linked(rsock)
             THEN WithWarn(roughness.warn, Raise("NotImplementedError"))
             ELSE IF rsock.default_value.n = 0
             THEN WithWarn(roughness.warn, Raise("ZeroDivisionError"))
             ELSE LET blinn == roughness_to_blinn_exponent(rsock.default_value.n)
                      exponent == IF ctx.glossy_mode = "phong"
                                  THEN Ratio(blinn.num, 4 * blinn.den) ELSE blinn
                  IN  IF sharp \/ exponent.num <= 0
                      THEN WithWarn(roughness.warn,
                             TwoSidedDescribed(ctx, Fields(<<"color">>, <<col>>),
                                               [type |-> "metal", roughness |-> Num(0)]))
                      ELSE IF node.distribution \notin DOMAIN RoughnessMode
                      THEN WithWarn(roughness.warn, Raise("KeyError"))
                      ELSE WithWarn(roughness.warn,
                             TwoSidedDescribed(ctx, Fields(<<"color">>, <<col>>),
                                  [type |-> ctx.glossy_mode,
                                   exponent |-> exponent,
                                   distribution |->
                                       Str(RoughnessMode[node.distribution])]))
        ELSE IF ctx.glossy_mode = "metal"
        THEN WithWarn(roughness.warn,
               TwoSidedDescribed(ctx,
                    Fields(<<"roughness", "color">>,
                           <<IF ~sharp THEN convert_texture_node(ctx, rsock)
                             ELSE Ok(Num(0)),
                             col>>),
                    [type |-> ctx.glossy_mode]))
        \* no branch fills params: bsdf['type'] is missing when it is wrapped
        ELSE WithWarn(roughness.warn,
                      IF ctx.force_two_sided THEN Raise("KeyError") ELSE Ok(<<>>))

convert_glossy_material(ctx, node) ==
    GlossyOf(ctx, node, convert_texture_node(ctx, node.inputs["Roughness"]),
             convert_texture_node(ctx, node.inputs["Color"]))

\* convert_glass_material, roughness and col being the conversions of the
\* Roughness and the Color input
GlassOf(ctx, node, roughness, col) ==
    LET w == IF is_linked(node.inputs["IOR"]) THEN 1 ELSE 0
        ior == node.inputs["IOR"].default_value
        rough == Truthy(roughness.val) /\ node.distribution # "SHARP"
        head == IF rough
                THEN [type |-> "rough dielectric",
                      roughness |-> roughness.val,
                      distribution |-> Str(RoughnessMode[node.distribution])]
                ELSE [type |-> IF ior = Num(10) THEN "thin dielectric"
                               ELSE "dielectric"]
    IN  WithWarn(w,
          IF Failed(roughness) THEN roughness
          ELSE IF rough /\ node.distribution \notin DOMAIN RoughnessMode
          THEN WithWarn(roughness.warn, Raise("KeyError"))
          ELSE WithWarn(roughness.warn,
                 Returning(col,
                   Update(head, [ior |-> ior,
                                 reflectance |-> col.val,
                                 transmittance |-> col.val]))))

convert_glass_material(ctx, node) ==
    GlassOf(ctx, node, convert_texture_node(ctx, node.inputs["Roughness"]),
            convert_texture_node(ctx, node.inputs["Color"]))

RECURSIVE SumSeq(_)
SumSeq(s) == IF s = <<>> THEN 0 ELSE s[1] + SumSeq(Tail(s))

convert_emission_material(ctx, node) ==
    IF is_linked(node.inputs["Strength"]) THEN Raise("NotImplementedError")
    ELSE IF is_linked(node.inputs["Color"]) THEN Raise("NotImplementedError")
    ELSE LET strength == node.inputs["Strength"].default_value.n
             c == node.inputs["Color"].default_value.s
             radiance == [i \in 1..Len(c) |-> c[i] * strength]
             zero == color(Num(0))
             col == color(Vec100(radiance))
         IN  IF SumSeq(radiance) = 0
             THEN WithWarn(1, Returning(zero, [type |-> "diffuse", color |-> zero.val]))
             ELSE Returning(col, [type |-> "emission", color |-> col.val])

convert_transparent_material(ctx, node) ==
    Described(Fields(<<"color">>, <<convert_texture_node(ctx, node.inputs["Color"])>>),
              [type |-> "transparent"])

RECURSIVE cycles_surface_to_dict(_, _, _)

\* ctx.follow_link(socket).links[0].from_node
LinkedNode(socket) ==
    LET s == follow_link(socket)
    IN  IF is_linked(s) THEN Ok(s.links[1].from_node) ELSE Raise("IndexError")

\* node.inputs is read by position: inputs[1] is "1" and inputs[2] is "2"
\* (convert_mix_material_swapped: a conversion that exchanges the branches)
convert_mix_material_swapped(ctx, node) ==
    LET mat_I == LinkedNode(node.inputs["1"])
        mat_II == LinkedNode(node.inputs["2"])
    IN  IF ~is_linked(node.inputs["1"]) \/ ~is_linked(node.inputs["2"])
        THEN Raise("NotImplementedError")
        ELSE IF Failed(mat_I) THEN mat_I
        ELSE IF Failed(mat_II) THEN mat_II
        ELSE Described(Fields(<<"factor", "b", "a">>,
                              <<convert_texture_node(ctx, node.inputs["Fac"]),
                                cycles_surface_to_dict(ctx, mat_I.val, <<>>),
                                cycles_surface_to_dict(ctx, mat_II.val, <<>>)>>),
                       [type |-> "mix"])
convert_mix_material(ctx, node) ==
    LET mat_I == LinkedNode(node.inputs["1"])
        mat_II == LinkedNode(node.inputs["2"])
    IN  IF ~is_linked(node.inputs["1"]) \/ ~is_linked(node.inputs["2"])
        THEN Raise("NotImplementedError")
        ELSE IF Failed(mat_I) THEN mat_I
        ELSE IF Failed(mat_II) THEN mat_II
        ELSE Described(Fields(<<"factor", "a", "b">>,
                              <<convert_texture_node(ctx, node.inputs["Fac"]),
                                cycles_surface_to_dict(ctx, mat_I.val, <<>>),
                                cycles_surface_to_dict(ctx, mat_II.val, <<>>)>>),
                       [type |-> "mix"])

convert_add_material(ctx, node) ==
    LET mat_I == LinkedNode(node.inputs["1"])
        mat_II == LinkedNode(node.inputs["2"])
    IN  IF ~is_linked(node.inputs["1"]) \/ ~is_linked(node.inputs["2"])
        THEN Raise("NotImplementedError")
        ELSE IF Failed(mat_I) THEN mat_I
        ELSE IF Failed(mat_II) THEN mat_II
        ELSE Described(Fields(<<"a", "b">>,
                              <<cycles_surface_to_dict(ctx, mat_I.val, <<>>),
                                cycles_surface_to_dict(ctx, mat_II.val, <<>>)>>),
                       [type |-> "add"])

Without(d, key) == [f \in DOMAIN d \ {key} |-> d[f]]

\* the result of wrapping the descriptor nested of the surface node node
\* (wrap_with_nothing: an exporter that leaves every descriptor as it is)
wrap_with_nothing(ctx, node, nested) == Ok(nested)
wrap_with_bump_or_normal_map(ctx, node, nested) ==
    IF /\ (ctx.use_normal_maps \/ ctx.use_bump_maps)
       /\ "Normal" \in DOMAIN node.inputs
       /\ is_linked(node.inputs["Normal"])
    THEN LET ln == LinkedNode(node.inputs["Normal"])
             n == ln.val
             name == IF "name" \in DOMAIN nested
                     THEN "name" :> nested["name"] ELSE <<>>
             Finish(f, head) ==
                 Returning(f, Update(Update(Update(head, f.val), name),
                                     "nested" :> Without(nested, "name")))
         IN  IF Failed(ln) THEN ln
             ELSE IF n.bl_idname = "ShaderNodeNormalMap"
             THEN IF ~ctx.use_normal_maps THEN Ok(nested)
                  ELSE IF n.space # "TANGENT" THEN Raise("NotImplementedError")
                  ELSE Finish(Fields(<<"normals">>,
                                <<convert_texture_node(ctx, n.inputs["Color"])>>),
                              ("type" :> "normal map")
                              @@ [strength |-> n.inputs["Strength"].default_value])
             ELSE IF n.bl_idname = "ShaderNodeBump"
             THEN IF ~ctx.use_bump_maps THEN Ok(nested)
                  ELSE Finish(Fields(<<"height", "strength", "distance">>,
                                <<convert_texture_node(ctx, n.inputs["Height"]),
                                  convert_texture_node(ctx, n.inputs["Strength"]),
                                  convert_texture_node(ctx, n.inputs["Distance"])>>),
                              ("type" :> "bump map") @@ [invert |-> Bool(n.invert)])
             ELSE Raise("NotImplementedError")
    ELSE Ok(nested)

surface_converters ==
    {"ShaderNodeBsdfDiffuse", "ShaderNodeBsdfGlossy", "ShaderNodeBsdfAnisotropic",
     "ShaderNodeBsdfGlass", "ShaderNodeMixShader", "ShaderNodeAddShader",
     "ShaderNodeEmission", "ShaderNodeBsdfTransparent"}

\* cycles_converters[node.bl_idname](ctx, node) of cycles_surface_to_dict
SurfaceDispatch(ctx, node) ==
    LET id == node.bl_idname IN
    CASE id = "ShaderNodeBsdfDiffuse" -> convert_diffuse_material(ctx, node)
      [] id \in {"ShaderNodeBsdfGlossy", "ShaderNodeBsdfAnisotropic"} ->
            convert_glossy_material(ctx, node)
      [] id = "ShaderNodeBsdfGlass" -> convert_glass_material(ctx, node)
      [] id = "ShaderNodeMixShader" -> convert_mix_material(ctx, node)
      [] id = "ShaderNodeAddShader" -> convert_add_material(ctx, node)
      [] id = "ShaderNodeEmission" -> convert_emission_material(ctx, node)
      [] id = "ShaderNodeBsdfTransparent" -> convert_transparent_material(ctx, node)

\* name is <<>> for None and <<n>> for the name n
\* (SurfaceOfNamed: a conversion that tags the descriptor of a branch too)
SurfaceOfNamed(ctx, node, name, conv) ==
    LET named == "name" :> (IF name # <<>> THEN material_name(name[1])
                            ELSE <<"branch">>)
    IN  IF Failed(conv) THEN conv
        ELSE WithWarn(conv.warn,
               wrap_with_bump_or_normal_map(ctx, node, Update(named, conv.val)))
SurfaceOf(ctx, node, name, conv) ==
    LET named == IF name # <<>> THEN "name" :> material_name(name[1]) ELSE <<>>
    IN  IF Failed(conv) THEN conv
        ELSE WithWarn(conv.warn,
               wrap_with_bump_or_normal_map(ctx, node, Update(named, conv.val)))

cycles_surface_to_dict(ctx, node, name) ==
    IF node.bl_idname \in surface_converters
    THEN SurfaceOf(ctx, node, name, SurfaceDispatch(ctx, node))
    ELSE Raise("NotImplementedError")

(***************************************************************************)
(* materials.py: the volume node converters                                *)
(***************************************************************************)
convert_volume_scatter_node(ctx, node) ==
    LET f == Fields(<<"albedo", "total">>,
                    <<color(node.inputs["Color"].default_value),
                      color(node.inputs["Density"].default_value)>>)
    IN  IF \/ is_linked(node.inputs["Color"])
           \/ is_linked(node.inputs["Density"])
           \/ is_linked(node.inputs["Anisotropy"])
        THEN Raise("NotImplementedError")
        ELSE Returning(f,
               Update(("type" :> "homogeneous")
                      @@ ("real fraction" :> Num(10))
                      @@ ("phase function" :>
                            [type |-> "hg",
                             g |-> node.inputs["Anisotropy"].default_value]),
                      f.val))

\* max() of one float is a TypeError, raised for the first color channel
convert_volume_absorption_node(ctx, node) ==
    IF is_linked(node.inputs["Color"]) \/ is_linked(node.inputs["Density"])
    THEN Raise("NotImplementedError")
    ELSE IF Len(node.inputs["Color"].default_value.s) > 0 THEN Raise("TypeError")
    ELSE Ok(("type" :> "homogeneous")
            @@ [albedo |-> Num(0), total |-> Vec(<<>>)]
            @@ ("real fraction" :> Num(10))
            @@ ("phase function" :> [type |-> "isotropic"]))

Max(a, b) == IF a >= b THEN a ELSE b

\* np.maximum(1.0 - scatter, 0.0) * np.maximum(1.0 - absorption, 0.0), in
\* hundredths, for two converted colors (a number broadcasts over a vector)
absorption_coeff(scatter, absorption) ==
    LET At(v, i) == IF v.k = "num" THEN v.n ELSE v.s[i]
        Prod(i) == Max(10 - At(scatter, i), 0) * Max(10 - At(absorption, i), 0)
    IN  IF scatter.k = "num" /\ absorption.k = "num"
        THEN [k |-> "num", n |-> Prod(1), per |-> 100]
        ELSE Vec100([i \in 1..3 |-> Prod(i)])

convert_volume_vdb_node(ctx, node) ==
    LET scatter_color == color(node.inputs["Color"].default_value)
        absorption_color == color(node.inputs["Absorption Color"].default_value)
    IN  IF \/ is_linked(node.inputs["Color"])
           \/ is_linked(node.inputs["Density"])
           \/ is_linked(node.inputs["Absorption Color"])
        THEN Raise("NotImplementedError")
        ELSE IF Failed(scatter_color) THEN scatter_color
        ELSE IF Failed(absorption_color) THEN absorption_color
        ELSE Ok([type |-> "nanovdb",
                 density |-> node.inputs["Density"].default_value,
                 sigma_s |-> scatter_color.val,
                 sigma_a |-> absorption_coeff(scatter_color.val, absorption_color.val),
                 gridname |-> node.inputs["Density Attribute"].default_value]
                @@ ("phase function" :>
                      [type |-> "hg", g |-> node.inputs["Anisotropy"].default_value]))

volume_converters ==
    {"ShaderNodeVolumeScatter", "ShaderNodeVolumeAbsorption",
     "ShaderNodeVolumePrincipled"}

cycles_volume_to_dict(ctx, node, name) ==
    LET named == IF name # <<>> THEN "name" :> material_name(name[1]) ELSE <<>>
        id == node.bl_idname
        conv == CASE id = "ShaderNodeVolumeScatter" ->
                        convert_volume_scatter_node(ctx, node)
                  [] id = "ShaderNodeVolumeAbsorption" ->
                        convert_volume_absorption_node(ctx, node)
                  [] id = "ShaderNodeVolumePrincipled" ->
                        convert_volume_vdb_node(ctx, node)
    IN  IF id \in volume_converters
        THEN Returning(conv, Update(named, conv.val))
        ELSE Raise("NotImplementedError")

(***************************************************************************)
(* materials.py: one material, and the materials of a scene                *)
(***************************************************************************)
\* name is <<>> for None and <<n>> for the name n
\* (get_dummy_material_unnamed: a placeholder that drops the name)
get_dummy_material_unnamed(ctx, name) ==
    LET c == color(Vec(<<10, 0, 3>>))
    IN  Returning(c, [type |-> "diffuse", color |-> c.val])
get_dummy_material(ctx, name) ==
    LET c == color(Vec(<<10, 0, 3>>))
    IN  Returning(c, Update([type |-> "diffuse", color |-> c.val],
                            IF name # <<>> THEN "name" :> material_name(name[1])
                            ELSE <<>>))

\* (RecoverSilently: a recovery that reports nothing)
RecoverSilently(ctx, b_mat, body) ==
    LET dummy == get_dummy_material(ctx, <<b_mat.name_full>>)
    IN  WithWarn(body.warn, Returning(dummy, [mat |-> dummy.val, media |-> NoneV]))
\* the except clause of convert_material, for the try body that raised: one
\* warning, and the dummy material
Recover(ctx, b_mat, body) ==
    LET dummy == get_dummy_material(ctx, <<b_mat.name_full>>)
    IN  WithWarn(body.warn + 1,
                 Returning(dummy, [mat |-> dummy.val, media |-> NoneV]))

\* The value of convert_material is [mat, media]: media is NoneV or a medium.
\* b_mat is [name_full, users, use_nodes, diffuse_color, nodes], nodes being
\* the node tree's nodes by name.
HasLink(b_mat, sock) ==
    LET output_node == b_mat.nodes["Material Output"]
    IN  sock \in DOMAIN output_node.inputs /\ is_linked(output_node.inputs[sock])

MediumName(b_mat) == b_mat.name_full \o <<" ", "volume">>

\* mat_params of the try statement: the surface of the material
SurfaceParams(ctx, b_mat, surface_node) ==
    IF HasLink(b_mat, "Surface")
    THEN IF Failed(surface_node) THEN surface_node
         ELSE cycles_surface_to_dict(ctx, surface_node.val, <<b_mat.name_full>>)
    ELSE Ok([type |-> "transparent"])

\* media_params of the try statement: the volume of the material
VolumeParams(ctx, b_mat, volume_node) ==
    IF HasLink(b_mat, "Volume")
    THEN IF Failed(volume_node) THEN volume_node
         ELSE cycles_volume_to_dict(ctx, volume_node.val, <<MediumName(b_mat)>>)
    ELSE Ok(NoneV)

\* the body of the try statement, surface and volume being the two conversions
TryBody(b_mat, surface, volume) ==
    LET displacement == IF HasLink(b_mat, "Displacement") THEN 1 ELSE 0
    IN  IF "Material Output" \notin DOMAIN b_mat.nodes
        THEN Raise("NotImplementedError")
        ELSE IF Failed(surface) THEN surface
        ELSE IF Failed(volume) THEN WithWarn(surface.warn, volume)
        ELSE WithWarn(surface.warn + volume.warn + displacement,
               Ok([mat |-> IF HasLink(b_mat, "Volume")
                           THEN Update(surface.val,
                                       "interior medium" :> Str(MediumName(b_mat)))
                           ELSE surface.val,
                   media |-> volume.val]))

\* the try statement: its body, or the except clause when the body raised
\* NotImplementedError
Try(ctx, b_mat, body) ==
    IF body.exc = "NotImplementedError" THEN Recover(ctx, b_mat, body) ELSE body

convert_material(ctx, b_mat) ==
    LET output_node == b_mat.nodes["Material Output"]
        dummy == get_dummy_material(ctx, <<b_mat.name_full>>)
        flat == color(b_mat.diffuse_color)
    IN  IF b_mat.use_nodes
        THEN Try(ctx, b_mat,
                 TryBody(b_mat,
                         SurfaceParams(ctx, b_mat,
                                       LinkedNode(output_node.inputs["Surface"])),
                         VolumeParams(ctx, b_mat,
                                      LinkedNode(output_node.inputs["Volume"]))))
        ELSE IF Failed(dummy) THEN dummy
        ELSE Returning(flat, [mat |-> Update(dummy.val, [color |-> flat.val]),
                              media |-> NoneV])


(***************************************************************************)
(* Nodes of the source graphs                                              *)
(***************************************************************************)
\* the longest chain of reroute nodes on a link
MaxReroutes == 1
\* how many capability flags are switched off together
MaxDisabled == 1

Float(n) == Unlinked(Num(n))
Rgba(r, g, b) == Unlinked(Vec(<<r, g, b, 10>>))
Xyz(x, y, z) == Unlinked(Vec(<<x, y, z>>))

SetInput(node, name, socket) == [node EXCEPT !.inputs[name] = socket]

Reroute(socket) == [bl_idname |-> "NodeReroute", inputs |-> [Input |-> socket]]
RECURSIVE Via(_, _)
\* the socket, reached through n reroute nodes
Via(n, socket) ==
    IF n = 0 THEN socket ELSE Linked(Reroute(Via(n - 1, socket)), "Output")

AnImage == [name |-> <<"wood", ".png">>, filepath |-> <<"wood", ".png">>,
            file_format |-> "PNG", colorspace |-> "sRGB"]

BlackbodyNode == [bl_idname |-> "ShaderNodeBlackbody",
                  inputs |-> [Temperature |-> Float(15000)]]
BrickNode ==
    [bl_idname |-> "ShaderNodeTexBrick",
     offset |-> Num(5), offset_frequency |-> Num(20),
     squash |-> Num(10), squash_frequency |-> Num(20),
     inputs |-> [Vector |-> Xyz(0, 0, 0), Color1 |-> Rgba(8, 8, 8),
                 Color2 |-> Rgba(2, 2, 2), Mortar |-> Rgba(0, 0, 0),
                 Scale |-> Float(50)]
                @@ ("Mortar Size" :> Float(1)) @@ ("Mortar Smooth" :> Float(1))
                @@ ("Bias" :> Float(0)) @@ ("Brick Width" :> Float(5))
                @@ ("Row Height" :> Float(3))]
ClampNode == [bl_idname |-> "ShaderNodeClamp", clamp_type |-> "MINMAX",
              inputs |-> [Value |-> Float(10), Min |-> Float(0), Max |-> Float(10)]]
CheckerNode ==
    [bl_idname |-> "ShaderNodeTexChecker",
     inputs |-> [Vector |-> Xyz(0, 0, 0), Color1 |-> Rgba(8, 8, 8),
                 Color2 |-> Rgba(2, 2, 2), Scale |-> Float(50)]]
CoordNode == [bl_idname |-> "ShaderNodeTexCoord", object |-> "None", inputs |-> <<>>]
EnvironmentNode ==
    [bl_idname |-> "ShaderNodeTexEnvironment", image |-> AnImage,
     interpolation |-> "Linear", projection |-> "EQUIRECTANGULAR",
     inputs |-> [Vector |-> Xyz(0, 0, 0)]]
MappingNode ==
    [bl_idname |-> "ShaderNodeMapping", vector_type |-> "POINT",
     inputs |-> [Vector |-> Xyz(0, 0, 0), Location |-> Xyz(10, 0, 0),
                 Rotation |-> Xyz(0, 0, 1), Scale |-> Xyz(10, 10, 10)]]
FresnelNode == [bl_idname |-> "ShaderNodeFresnel", inputs |-> [IOR |-> Float(15)]]
ImageNode ==
    [bl_idname |-> "ShaderNodeTexImage", image |-> AnImage,
     interpolation |-> "Linear", projection |-> "FLAT",
     projection_blend |-> Num(0), extension |-> "REPEAT",
     inputs |-> [Vector |-> Xyz(0, 0, 0)]]
LayerWeightNode == [bl_idname |-> "ShaderNodeLayerWeight",
                    inputs |-> [Blend |-> Float(5)]]
MixRGBNode ==
    [bl_idname |-> "ShaderNodeMixRGB", blend_type |-> "MIX", use_clamp |-> FALSE,
     inputs |-> [Fac |-> Float(5), Color1 |-> Rgba(10, 0, 0), Color2 |-> Rgba(0, 0, 10)]]
MixNode ==
    [bl_idname |-> "ShaderNodeMix", data_type |-> "RGBA", blend_type |-> "MIX",
     clamp_factor |-> TRUE, clamp_result |-> FALSE,
     inputs |-> [Fac |-> Float(5), Color1 |-> Rgba(10, 0, 0), Color2 |-> Rgba(0, 0, 10)]]
MusgraveNode(dim) ==
    [bl_idname |-> "ShaderNodeTexMusgrave", noise_dimensions |-> dim,
     musgrave_type |-> "FBM",
     inputs |-> [Vector |-> Xyz(0, 0, 0), W |-> Float(0), Scale |-> Float(50),
                 Detail |-> Float(20), Dimension |-> Float(20),
                 Lacunarity |-> Float(20), Offset |-> Float(0), Gain |-> Float(10)]]
NoiseNode(dim) ==
    [bl_idname |-> "ShaderNodeTexNoise", noise_dimensions |-> dim, normalize |-> TRUE,
     inputs |-> [Vector |-> Xyz(0, 0, 0), W |-> Float(0), Scale |-> Float(50),
                 Detail |-> Float(20), Roughness |-> Float(5),
                 Lacunarity |-> Float(20), Distortion |-> Float(0)]]
RGBNode == [bl_idname |-> "ShaderNodeRGB", color |-> Vec(<<5, 5, 5, 10>>),
            inputs |-> <<>>]
VoronoiNode(dim, feature) ==
    [bl_idname |-> "ShaderNodeTexVoronoi", voronoi_dimensions |-> dim,
     feature |-> feature, distance |-> "EUCLIDEAN",
     inputs |-> [Vector |-> Xyz(0, 0, 0), W |-> Float(0), Scale |-> Float(50),
                 Randomness |-> Float(10), Smoothness |-> Float(10)]]
WaveNode(wave_type) ==
    [bl_idname |-> "ShaderNodeTexWave", wave_type |-> wave_type,
     bands_direction |-> "X", rings_direction |-> "SPHERICAL", wave_profile |-> "SIN",
     inputs |-> [Vector |-> Xyz(0, 0, 0), Scale |-> Float(50), Distortion |-> Float(0),
                 Detail |-> Float(20)]
                @@ ("Detail Scale" :> Float(10)) @@ ("Detail Roughness" :> Float(5))
                @@ ("Phase Offset" :> Float(0))]
WavelengthNode == [bl_idname |-> "ShaderNodeWavelength",
                   inputs |-> [Wavelength |-> Float(5000)]]
WhiteNoiseNode(dim) ==
    [bl_idname |-> "ShaderNodeTexWhiteNoise", noise_dimensions |-> dim,
     inputs |-> [Vector |-> Xyz(0, 0, 0), W |-> Float(0)]]
WireframeNode == [bl_idname |-> "ShaderNodeWireframe", use_pixel_size |-> FALSE,
                  inputs |-> [Size |-> Float(1)]]
LightPathNode == [bl_idname |-> "ShaderNodeLightPath", inputs |-> <<>>]
VertexColorNode == [bl_idname |-> "ShaderNodeVertexColor", inputs |-> <<>>]
ValToRGBNode ==
    [bl_idname |-> "ShaderNodeValToRGB",
     color_ramp |-> [color_mode |-> "RGB", interpolation |-> "LINEAR",
                     hue_interpolation |-> "NEAR",
                     elements |-> <<[position |-> Num(0), alpha |-> Num(10),
                                     color |-> Vec(<<0, 0, 0, 10>>)],
                                    [position |-> Num(10), alpha |-> Num(10),
                                     color |-> Vec(<<10, 10, 10, 10>>)]>>],
     inputs |-> [Fac |-> Float(5)]]
SeparateColorNode == [bl_idname |-> "ShaderNodeSeparateColor", mode |-> "RGB",
                      inputs |-> [Color |-> Rgba(8, 8, 8)]]
SeparateXYZNode == [bl_idname |-> "ShaderNodeSeparateXYZ",
                    inputs |-> [Vector |-> Xyz(0, 0, 0)]]
GradientNode == [bl_idname |-> "ShaderNodeTexGradient", gradient_type |-> "LINEAR",
                 inputs |-> [Vector |-> Xyz(0, 0, 0)]]
MathNode == [bl_idname |-> "ShaderNodeMath", operation |-> "MULTIPLY_ADD",
             use_clamp |-> FALSE,
             inputs |-> ("0" :> Float(5)) @@ ("1" :> Float(5)) @@ ("2" :> Float(0))]
\* a node kind that no dispatch table holds
SkyNode == [bl_idname |-> "ShaderNodeTexSky", inputs |-> <<>>]

Dims == {"1D", "2D", "3D", "4D"}

\* the capability flag of each texture node kind that has one
FlagOf ==
    [ShaderNodeBlackbody |-> "blackbody", ShaderNodeTexBrick |-> "brick",
     ShaderNodeClamp |-> "clamp", ShaderNodeTexChecker |-> "checker",
     ShaderNodeTexCoord |-> "coord", ShaderNodeMapping |-> "mapping",
     ShaderNodeFresnel |-> "fresnel", ShaderNodeLayerWeight |-> "layer_weight",
     ShaderNodeMixRGB |-> "mix_rgb", ShaderNodeMix |-> "mix_node",
     ShaderNodeTexMusgrave |-> "musgrave", ShaderNodeTexNoise |-> "noise",
     ShaderNodeTexVoronoi |-> "voronoi", ShaderNodeTexWave |-> "wave",
     ShaderNodeWavelength |-> "wavelength", ShaderNodeWireframe |-> "wireframe",
     ShaderNodeValToRGB |-> "color_ramp", ShaderNodeSeparateXYZ |-> "separate",
     ShaderNodeSeparateColor |-> "separate", ShaderNodeTexGradient |-> "gradient",
     ShaderNodeMath |-> "math"]
Flags == {FlagOf[id] : id \in DOMAIN FlagOf}

\* the output sockets of a node that the model links from
Outputs(node) ==
    LET id == node.bl_idname IN
    CASE id \in {"ShaderNodeTexBrick", "ShaderNodeTexChecker", "ShaderNodeTexNoise",
                 "ShaderNodeTexWave", "ShaderNodeTexGradient"} -> {"Color", "Fac"}
      [] id = "ShaderNodeTexCoord" -> {"UV", "Generated"}
      [] id = "ShaderNodeMapping" -> {"Vector"}
      [] id \in {"ShaderNodeFresnel", "ShaderNodeTexMusgrave", "ShaderNodeWireframe"} ->
            {"Fac"}
      [] id \in {"ShaderNodeTexImage", "ShaderNodeValToRGB"} -> {"Color", "Alpha"}
      [] id = "ShaderNodeLayerWeight" -> {"Fresnel", "Facing"}
      [] id = "ShaderNodeTexVoronoi" -> {"Distance", "Color"}
      [] id = "ShaderNodeTexWhiteNoise" -> {"Value", "Color"}
      [] id = "ShaderNodeLightPath" -> {"Is Camera Ray"}
      [] id = "ShaderNodeSeparateColor" -> {"R"}
      [] id = "ShaderNodeSeparateXYZ" -> {"Z"}
      [] id \in {"ShaderNodeClamp", "ShaderNodeMix"} -> {"Result"}
      [] id = "ShaderNodeMath" -> {"Value"}
      [] OTHER -> {"Color"}

\* texture nodes all of whose inputs are literals
PlainTextureNodes ==
    {BlackbodyNode, BrickNode, ClampNode, CheckerNode, CoordNode, EnvironmentNode,
     MappingNode, FresnelNode, ImageNode, LayerWeightNode, MixRGBNode, MixNode,
     RGBNode, WavelengthNode, WireframeNode, LightPathNode, VertexColorNode,
     ValToRGBNode, SeparateColorNode, SeparateXYZNode, GradientNode, MathNode,
     SkyNode}
    \cup {WaveNode(t) : t \in {"BANDS", "RINGS"}}
    \cup {MusgraveNode(d) : d \in Dims} \cup {NoiseNode(d) : d \in Dims}
    \cup {WhiteNoiseNode(d) : d \in Dims}
    \cup {VoronoiNode(d, f) : d \in Dims, f \in {"F1", "SMOOTH_F1"}}

\* the links to a node, from each of its output sockets
LinksToNode(node) ==
    {Via(n, Linked(node, out)) : n \in 0..MaxReroutes, out \in Outputs(node)}

\* what drives an input that the model varies: one node of each kind
DriverNodes ==
    {BlackbodyNode, BrickNode, ClampNode, CheckerNode, CoordNode, MappingNode,
     FresnelNode, ImageNode, LayerWeightNode, MixRGBNode, MixNode,
     MusgraveNode("3D"), NoiseNode("3D"), VoronoiNode("3D", "F1"),
     WaveNode("BANDS"), WavelengthNode, WireframeNode, ValToRGBNode,
     SeparateColorNode, SeparateXYZNode, GradientNode, MathNode, SkyNode}
Drivers == {Linked(node, CHOOSE out \in Outputs(node) : TRUE) : node \in DriverNodes}

\* texture nodes one of whose inputs is driven
DrivenTextureNodes ==
    UNION {{SetInput(node, input, d) : input \in DOMAIN node.inputs, d \in Drivers} :
             node \in PlainTextureNodes}

\* color mixes both of whose colors are driven
TwiceDrivenTextureNodes ==
    {SetInput(SetInput(MixRGBNode, "Color1", d1), "Color2", d2) :
       d1 \in Drivers, d2 \in Drivers}

\* sockets linked to a chain of reroute nodes the first of which has nothing
\* linked to its input
DanglingSockets ==
    {Via(n, socket) : n \in 1..MaxReroutes, socket \in {Float(5), Rgba(10, 0, 0)}}

\* links to a layer weight node: its Blend input is a literal below, at or
\* above 1, or is driven; the link starts at one of the two outputs of the
\* node or at an output of another name, which the converter rejects
LayerWeightSockets ==
    {Linked(SetInput(LayerWeightNode, "Blend", blend), out) :
       blend \in {Float(0), Float(3), Float(9), Float(10), Float(12),
                  LinkedWithDefault(NoiseNode("3D"), "Fac", Num(10)),
                  Linked(SkyNode, "Color")},
       out \in {"Fresnel", "Facing", "Color"}}

\* the sockets that the texture conversion is applied to
TextureSockets ==
    {Float(5), Float(0), Rgba(10, 0, 0), Xyz(0, 0, 0)}
    \cup DanglingSockets
    \cup LayerWeightSockets
    \cup UNION {LinksToNode(node) : node \in PlainTextureNodes}
    \cup UNION {{Linked(node, out) : out \in Outputs(node)} :
                  node \in DrivenTextureNodes \cup TwiceDrivenTextureNodes}

RECURSIVE KindsOfNode(_)
\* the kinds of the nodes of the graph that ends in node
KindsOfNode(node) ==
    {node.bl_idname}
    \cup UNION {IF is_linked(node.inputs[i])
                THEN KindsOfNode(node.inputs[i].links[1].from_node) ELSE {} :
                  i \in DOMAIN node.inputs}
KindsOfSocket(socket) ==
    IF is_linked(socket) THEN KindsOfNode(socket.links[1].from_node) ELSE {}
FlagsOfKinds(kinds) == {FlagOf[id] : id \in kinds \cap DOMAIN FlagOf}

\* the options of an export; the flags of disabled are the enable_ options
\* that are off
DefaultCtx ==
    [material_mode |-> "CONVERT", glossy_mode |-> "rough conductor",
     force_two_sided |-> TRUE, use_normal_maps |-> TRUE, use_bump_maps |-> FALSE,
     mesh_mode |-> "SINGLE", write_obj_files |-> TRUE,
     filepath |-> <<"scene", ".json">>,
     disabled |-> {}]

\* The capability flags are switched off at most MaxDisabled at a time, among
\* those of the node kinds of the graph: no conversion reads another flag.
Disablings(kinds) ==
    {d \in SUBSET FlagsOfKinds(kinds) : Cardinality(d) <= MaxDisabled}

(***************************************************************************)
(* Surface nodes of the source graphs                                      *)
(***************************************************************************)
NormalMapNode(space) ==
    [bl_idname |-> "ShaderNodeNormalMap", space |-> space,
     inputs |-> [Color |-> Linked(ImageNode, "Color"), Strength |-> Float(10)]]
BumpNode ==
    [bl_idname |-> "ShaderNodeBump", invert |-> FALSE,
     inputs |-> [Height |-> Linked(NoiseNode("3D"), "Fac"), Strength |-> Float(10),
                 Distance |-> Float(1)]]

\* what the Normal input of a surface node is linked to, or nothing
NormalSockets ==
    {Xyz(0, 0, 0)}
    \cup {Via(n, Linked(node, "Normal")) :
            n \in 0..MaxReroutes,
            node \in {NormalMapNode("TANGENT"), NormalMapNode("OBJECT"), BumpNode}}
    \cup {Linked(SkyNode, "Color")}

DiffuseNode(col, normal) ==
    [bl_idname |-> "ShaderNodeBsdfDiffuse",
     inputs |-> [Color |-> col, Roughness |-> Float(0), Normal |-> normal]]
GlossyNode(distribution, roughness, normal) ==
    [bl_idname |-> "ShaderNodeBsdfGlossy", distribution |-> distribution,
     inputs |-> [Color |-> Rgba(8, 8, 8), Roughness |-> roughness, Normal |-> normal]]
AnisotropicNode(normal) ==
    [bl_idname |-> "ShaderNodeBsdfAnisotropic", distribution |-> "GGX",
     inputs |-> [Color |-> Rgba(8, 8, 8), Roughness |-> Float(5),
                 Anisotropy |-> Float(5), Rotation |-> Float(0), Normal |-> normal]]
GlassNode(ior) ==
    [bl_idname |-> "ShaderNodeBsdfGlass", distribution |-> "BECKMANN",
     inputs |-> [Color |-> Rgba(10, 10, 10), Roughness |-> Float(0), IOR |-> ior,
                 Normal |-> Xyz(0, 0, 0)]]
EmissionNode(col, strength) ==
    [bl_idname |-> "ShaderNodeEmission",
     inputs |-> [Color |-> col, Strength |-> strength]]
TransparentNode ==
    [bl_idname |-> "ShaderNodeBsdfTransparent", inputs |-> [Color |-> Rgba(10, 10, 10)]]
\* a surface node kind that no dispatch table holds
PrincipledNode ==
    [bl_idname |-> "ShaderNodeBsdfPrincipled", inputs |-> [Normal |-> Xyz(0, 0, 0)]]
MixShaderNode(fac, s1, s2) ==
    [bl_idname |-> "ShaderNodeMixShader",
     inputs |-> [Fac |-> fac] @@ ("1" :> s1) @@ ("2" :> s2)]
AddShaderNode(s1, s2) ==
    [bl_idname |-> "ShaderNodeAddShader", inputs |-> ("1" :> s1) @@ ("2" :> s2)]

\* a shader input that nothing is linked to
NoShader == Unlinked(NoneV)

Red == Rgba(10, 0, 0)
Blue == Rgba(0, 0, 10)

\* colors of an emission node, with their alpha channel
EmissionColors ==
    {Unlinked(Vec(c)) : c \in {<<0, 0, 0, 10>>, <<0, 0, 0, 0>>, <<10, 10, 10, 10>>,
                               <<10, 0, 0, 10>>}}
    \cup {Linked(RGBNode, "Color")}
EmissionStrengths == {Float(0), Float(10), Float(25), Linked(MathNode, "Value")}

DiffuseNodes ==
    {DiffuseNode(col, normal) :
       col \in {Red, Blue, Linked(CheckerNode, "Color"), Linked(SkyNode, "Color")},
       normal \in NormalSockets}
\* a Fresnel node whose IOR is driven: its conversion reports a warning
DrivenFresnelNode ==
    SetInput(FresnelNode, "IOR", LinkedWithDefault(NoiseNode("3D"), "Fac", Num(15)))
GlossyNodes ==
    {GlossyNode(d, r, normal) :
       d \in {"GGX", "SHARP"}, r \in {Float(0), Float(5)}, normal \in NormalSockets}
    \cup {AnisotropicNode(normal) : normal \in NormalSockets}
    \cup {GlossyNode(d, Linked(DrivenFresnelNode, "Fac"), Xyz(0, 0, 0)) :
            d \in {"GGX", "SHARP"}}
EmissionNodes == {EmissionNode(col, s) : col \in EmissionColors, s \in EmissionStrengths}
\* glass nodes: the distributions of the node, a roughness that is 0, a
\* literal or a texture, an IOR that is 1.0 or not, literal or linked
GlassNodes ==
    {[GlassNode(ior) EXCEPT !.distribution = d, !.inputs["Roughness"] = r,
                            !.inputs["Color"] = col] :
       d \in {"SHARP", "BECKMANN", "GGX", "MULTI_GGX"},
       r \in {Float(0), Float(5), Linked(NoiseNode("3D"), "Fac")},
       ior \in {Float(10), Float(15), LinkedWithDefault(FresnelNode, "Fac", Num(10))},
       col \in {Rgba(10, 10, 10), Linked(CheckerNode, "Color")}}

\* surface nodes that link to no other surface node
LeafNodes ==
    DiffuseNodes \cup GlossyNodes \cup EmissionNodes \cup GlassNodes
    \cup {GlassNode(Float(15)), GlassNode(Float(10)),
          GlassNode(LinkedWithDefault(FresnelNode, "Fac", Num(15))),
          TransparentNode, PrincipledNode}

\* what the shader inputs of a mix or add node are linked to, or nothing
Branches ==
    {NoShader}
    \cup {Via(n, Linked(node, "BSDF")) :
            n \in 0..MaxReroutes,
            node \in {DiffuseNode(Red, Xyz(0, 0, 0)), DiffuseNode(Blue, Xyz(0, 0, 0)),
                      GlossyNode("GGX", Float(5), Xyz(0, 0, 0)),
                      GlassNode(LinkedWithDefault(FresnelNode, "Fac", Num(15))),
                      EmissionNode(Unlinked(Vec(<<10, 10, 10, 10>>)), Float(10)),
                      PrincipledNode}}
Factors == {Float(3), Float(5), Linked(NoiseNode("3D"), "Fac")}

MixNodes == {MixShaderNode(fac, s1, s2) : fac \in Factors, s1 \in Branches, s2 \in Branches}
AddNodes == {AddShaderNode(s1, s2) : s1 \in Branches, s2 \in Branches}

\* mix and add nodes one of whose branches is a mix or add node
NestedNodes ==
    {MixShaderNode(Float(5), s1, Linked(inner, "Shader")) :
       s1 \in Branches,
       inner \in {MixShaderNode(Float(3), a, b) :
                    a \in {NoShader, Linked(DiffuseNode(Red, Xyz(0, 0, 0)), "BSDF")},
                    b \in {NoShader, Linked(DiffuseNode(Blue, Xyz(0, 0, 0)), "BSDF")}}}

SurfaceNodes == LeafNodes \cup MixNodes \cup AddNodes \cup NestedNodes

GlossyModes == {"metal", "phong", "blinn-phong", "rough conductor"}

\* the options that the conversion of a surface node reads; the glossy mode
\* is read for a glossy node only
SurfaceOptions(node) ==
    {[DefaultCtx EXCEPT !.force_two_sided = two, !.use_normal_maps = nm,
                        !.use_bump_maps = bm, !.glossy_mode = gm] :
       two \in BOOLEAN, nm \in BOOLEAN, bm \in BOOLEAN,
       gm \in IF {"ShaderNodeBsdfGlossy", "ShaderNodeBsdfAnisotropic"}
                 \cap KindsOfNode(node) # {}
              THEN GlossyModes ELSE {"rough conductor"}}

\* the names that a conversion is given: none, or a name with a space
MaterialNames == {<<>>, <<<<"Metal", " ", "A">>>>}

(***************************************************************************)
(* Volume nodes, materials and worlds of the source scenes                 *)
(***************************************************************************)
\* how many materials a scene holds
MaxMaterials == 2
\* how many meshes the exporter visits, and how many slots in each
MaxMeshes == 2
MaxSlots == 2

VolumeScatterNode ==
    [bl_idname |-> "ShaderNodeVolumeScatter",
     inputs |-> [Color |-> Rgba(8, 8, 8), Density |-> Float(10),
                 Anisotropy |-> Float(0)]]
VolumeAbsorptionNode ==
    [bl_idname |-> "ShaderNodeVolumeAbsorption",
     inputs |-> [Color |-> Rgba(8, 8, 8), Density |-> Float(10)]]
\* a mix of two volumes: a node kind that the volume dispatch table lacks
VolumeMixNode ==
    MixShaderNode(Float(5), Linked(VolumeScatterNode, "Volume"),
                  Linked(VolumeScatterNode, "Volume"))

OutputNode(surface, volume) ==
    [bl_idname |-> "ShaderNodeOutputMaterial",
     inputs |-> [Surface |-> surface, Volume |-> volume, Displacement |-> NoShader]]
Material(name, users, surface, volume) ==
    [name_full |-> name, users |-> users, use_nodes |-> TRUE,
     diffuse_color |-> Vec(<<8, 2, 2, 10>>),
     nodes |-> ("Material Output" :> OutputNode(surface, volume))]

NoNormal == Xyz(0, 0, 0)
\* a mix node whose first shader input is not linked
HalfMixNode ==
    MixShaderNode(Float(3), NoShader, Linked(DiffuseNode(Blue, NoNormal), "BSDF"))

MatteRed ==
    Material(<<"Matte", " ", "Red">>, 2, Linked(DiffuseNode(Red, NoNormal), "BSDF"),
             NoShader)
\* the surface node is of a kind that the surface dispatch table lacks
Principled == Material(<<"Principled">>, 1, Linked(PrincipledNode, "BSDF"), NoShader)
\* the color is driven by a node of a kind that the texture dispatch table lacks
SkyPaint ==
    Material(<<"Sky", " ", "Paint">>, 1,
             Linked(DiffuseNode(Linked(SkyNode, "Color"), NoNormal), "BSDF"), NoShader)
\* a branch of the surface mix is of a kind that the surface dispatch table lacks
Coated ==
    Material(<<"Coated">>, 1,
             Via(1, Linked(MixShaderNode(Float(5),
                                         Linked(DiffuseNode(Red, NoNormal), "BSDF"),
                                         Linked(PrincipledNode, "BSDF")), "Shader")),
             NoShader)
HalfMix == Material(<<"Half">>, 1, Linked(HalfMixNode, "Shader"), NoShader)
\* the half-linked mix is a branch, next to a glass node whose IOR is linked
NestedHalfMix ==
    Material(<<"Nested">>, 1,
             Linked(MixShaderNode(Float(5),
                      Linked(GlassNode(LinkedWithDefault(FresnelNode, "Fac", Num(15))),
                             "BSDF"),
                      Linked(HalfMixNode, "Shader")), "Shader"),
             NoShader)
Fog == Material(<<"Fog">>, 1, NoShader, Linked(VolumeScatterNode, "Volume"))
\* the volume is of a kind that the volume dispatch table lacks
MixedFog ==
    Material(<<"Mixed", " ", "Fog">>, 1, Linked(DiffuseNode(Red, NoNormal), "BSDF"),
             Linked(VolumeMixNode, "Shader"))
\* the surface reports a warning, for the linked IOR of the glass node, and
\* the volume is of a kind that the volume dispatch table lacks
Frosted ==
    Material(<<"Frosted">>, 1,
             Linked(GlassNode(LinkedWithDefault(FresnelNode, "Fac", Num(15))), "BSDF"),
             Linked(VolumeMixNode, "Shader"))
Smoke == Material(<<"Smoke">>, 1, NoShader, Linked(VolumeAbsorptionNode, "Volume"))
Unused == Material(<<"Unused">>, 0, Linked(DiffuseNode(Blue, NoNormal), "BSDF"), NoShader)
DotsStroke ==
    Material(<<"Dots", " ", "Stroke">>, 1, Linked(DiffuseNode(Blue, NoNormal), "BSDF"), NoShader)
Flat == [Material(<<"Flat">>, 1, NoShader, NoShader) EXCEPT !.use_nodes = FALSE]
\* the color of the surface node is a literal of two entries, which the value
\* normalizer rejects
Malformed ==
    Material(<<"Malformed">>, 1,
             Linked(DiffuseNode(Unlinked(Vec(<<10, 0>>)), NoNormal), "BSDF"), NoShader)

\* the materials that a scene draws from; their names differ
Catalogue ==
    {MatteRed, Principled, SkyPaint, Coated, HalfMix, NestedHalfMix, Fog, MixedFog,
     Frosted, Smoke, Unused, DotsStroke, Flat, Malformed}

\* bpy.data.materials lists the materials by name
CatalogueOrder ==
    <<Coated, DotsStroke, Flat, Fog, Frosted, HalfMix, Malformed, MatteRed, MixedFog, NestedHalfMix,
      Principled, SkyPaint, Smoke, Unused>>

\* context.scene.world: none, or a node tree with a World Output node
NoWorld == NoneV
World(volume) ==
    [use_nodes |-> TRUE,
     nodes |-> ("World Output" :>
                  [bl_idname |-> "ShaderNodeOutputWorld",
                   inputs |-> [Surface |-> NoShader, Volume |-> volume]])]
Worlds ==
    {NoWorld, World(NoShader), World(Linked(VolumeScatterNode, "Volume")),
     World(Linked(VolumeMixNode, "Shader"))}

\* a scene: the materials of bpy.data.materials and the world; the meshes and
\* their slots are drawn as the exporter visits them
Scenes ==
    [materials : {m \in SUBSET Catalogue : Cardinality(m) <= MaxMaterials},
     world : Worlds]

\* a slot without a material
EmptySlot == NoneV
\* what a slot of a mesh of the scene holds: a material that has users, or
\* nothing
SlotChoices(sc) == {m \in sc.materials : m.users > 0} \cup {EmptySlot}

MaterialModes == {"OFF", "ONE", "DIFFUSE", "CONVERT"}

(***************************************************************************)
(* The state                                                               *)
(***************************************************************************)
VARIABLES
    ctx,                \* the options of the SceneWriter
    pc,                 \* what runs next
    subject,            \* the socket, node or material that was last visited
    result,             \* the result of the last conversion
    scene,              \* the scene that is exported
    visit,              \* the mesh and the slot that materials.export is at
    already_exported,   \* ctx.already_exported
    mats,               \* the list materials of materials.export
    media,              \* the list media of materials.export
    data_all,           \* the document
    conversions,        \* how often convert_material ran, by material name
    surfaces_json,      \* the list surfaces_json of geometry.export
    obj_files,          \* how often each OBJ file was written, by path
    volumes_json,       \* the list volumes_json of export_volumes
    stack               \* the sockets of the active calls of follow_link

geometryVars == <<surfaces_json, obj_files, volumes_json>>
exportVars == <<scene, visit, already_exported, mats, media, data_all, conversions,
                geometryVars, stack>>
vars == <<ctx, pc, subject, result, scene, visit, already_exported, mats, media,
          data_all, conversions, surfaces_json, obj_files, volumes_json, stack>>

\* the state of an export that has not begun
NoExport ==
    /\ visit = [mesh |-> 0, slot |-> 0]
    /\ already_exported = <<>>
    /\ mats = <<>>
    /\ media = <<>>
    /\ data_all = <<>>
    /\ conversions = <<>>
    /\ surfaces_json = <<>>
    /\ obj_files = <<>>
    /\ volumes_json = <<>>

(***************************************************************************)
(* Texture conversion on its own: convert_texture_node applied to a socket *)
(***************************************************************************)
InitTexture ==
    /\ subject \in TextureSockets
    /\ ctx \in {[DefaultCtx EXCEPT !.disabled = d] : d \in Disablings(KindsOfSocket(subject))}
    /\ pc = "texture"
    /\ result = Ok(NoneV)
    /\ scene = [materials |-> {}, world |-> NoWorld]
    /\ stack = <<>>
    /\ NoExport

ConvertTexture ==
    /\ pc = "texture"
    /\ result' = convert_texture_node(ctx, subject)
    /\ pc' = "converted"
    /\ UNCHANGED <<ctx, subject, exportVars>>

NextTexture == ConvertTexture

SpecTexture == InitTexture /\ [][NextTexture]_vars

(***************************************************************************)
(* Surface conversion on its own: cycles_surface_to_dict applied to a node *)
(***************************************************************************)
InitSurface ==
    /\ subject \in [node : SurfaceNodes, name : MaterialNames]
    /\ ctx \in SurfaceOptions(subject.node)
    /\ pc = "surface"
    /\ result = Ok(NoneV)
    /\ scene = [materials |-> {}, world |-> NoWorld]
    /\ stack = <<>>
    /\ NoExport

ConvertSurface ==
    /\ pc = "surface"
    /\ result' = cycles_surface_to_dict(ctx, subject.node, subject.name)
    /\ pc' = "converted"
    /\ UNCHANGED <<ctx, subject, exportVars>>

NextSurface == ConvertSurface

SpecSurface == InitSurface /\ [][NextSurface]_vars

(***************************************************************************)
(* Volume conversion on its own: cycles_volume_to_dict applied to a node   *)
(***************************************************************************)
VolumePrincipledNode ==
    [bl_idname |-> "ShaderNodeVolumePrincipled",
     inputs |-> [Color |-> Rgba(5, 5, 5), Density |-> Float(10),
                 Anisotropy |-> Float(0)]
                @@ ("Absorption Color" :> Rgba(0, 0, 0))
                @@ ("Density Attribute" :> Unlinked(Str(<<"density">>)))]

\* the inputs of a volume node that hold a number or a color
NumericInputs(node) ==
    DOMAIN node.inputs \cap {"Color", "Density", "Anisotropy", "Absorption Color"}

\* the node, with a texture linked to each input of the set
WithLinked(node, linked) ==
    [node EXCEPT !.inputs =
        [i \in DOMAIN node.inputs |->
            IF i \in linked
            THEN LinkedWithDefault(NoiseNode("3D"), "Fac", node.inputs[i].default_value)
            ELSE node.inputs[i]]]

\* the volume nodes of the three kinds, with each set of their numeric inputs
\* linked and with two colors, and nodes of two other kinds
VolumeNodes ==
    UNION {{WithLinked(SetInput(node, "Color", col), linked) :
              linked \in SUBSET NumericInputs(node),
              col \in {Rgba(5, 5, 5), Rgba(10, 0, 0)}} :
             node \in {VolumeScatterNode, VolumeAbsorptionNode, VolumePrincipledNode}}
    \cup {VolumeMixNode, EmissionNode(Rgba(10, 10, 10), Float(10))}

InitVolume ==
    /\ subject \in [node : VolumeNodes, name : MaterialNames]
    /\ ctx = DefaultCtx
    /\ pc = "volume"
    /\ result = Ok(NoneV)
    /\ scene = [materials |-> {}, world |-> NoWorld]
    /\ stack = <<>>
    /\ NoExport

ConvertVolume ==
    /\ pc = "volume"
    /\ result' = cycles_volume_to_dict(ctx, subject.node, subject.name)
    /\ pc' = "medium"
    /\ UNCHANGED <<ctx, subject, exportVars>>

NextVolume == ConvertVolume

SpecVolume == InitVolume /\ [][NextVolume]_vars

(***************************************************************************)
(* The value normalizer on its own: SceneWriter.color applied to a value   *)
(***************************************************************************)
\* how many entries a sequence holds
MaxColorLen == 5

\* the entries of a sequence, with their Python types
ColorItems ==
    {[t |-> "float", v |-> 0], [t |-> "float", v |-> 5], [t |-> "int", v |-> 10],
     [t |-> "tuple", v |-> 0], [t |-> "str", v |-> 0]}

\* the sequences of at most n entries drawn from the set
SeqsUpTo(set, n) == UNION {[1..m -> set] : m \in 0..n}

\* the values that the normalizer is applied to: a number, and sequences
ColorValues ==
    {Num(5)}
    \cup {PyList(items) : items \in SeqsUpTo(ColorItems, MaxColorLen)}
    \cup {Vec(s) : s \in SeqsUpTo({0, 5}, MaxColorLen)}

InitColor ==
    /\ subject \in ColorValues
    /\ ctx = DefaultCtx
    /\ pc = "color"
    /\ result = Ok(NoneV)
    /\ scene = [materials |-> {}, world |-> NoWorld]
    /\ stack = <<>>
    /\ NoExport

NormalizeColor ==
    /\ pc = "color"
    /\ result' = color(subject)
    /\ pc' = "normalized"
    /\ UNCHANGED <<ctx, subject, exportVars>>

NextColor == NormalizeColor

SpecColor == InitColor /\ [][NextColor]_vars

(***************************************************************************)
(* SceneWriter.follow_link call by call, on graphs that may hold cycles    *)
(***************************************************************************)
\* how many nodes a graph holds
MaxGraphNodes == 3
\* sys.getrecursionlimit(): how many calls the interpreter lets be active at
\* a time; no chain of reroute nodes without a cycle needs as many
RecursionLimit == MaxGraphNodes + 2

\* In a graph the nodes are 1..MaxGraphNodes and a link names the node that it
\* comes from, so that a node can be linked to itself or to a node that is
\* linked to it. A node is [bl_idname, input], input being its inputs[0].
GraphSockets == {[links |-> <<>>]} \cup {[links |-> <<n>>] : n \in 1..MaxGraphNodes}
Graphs ==
    [1..MaxGraphNodes ->
        [bl_idname : {"NodeReroute", "ShaderNodeRGB"}, input : GraphSockets]]

\* socket.links[0].from_node in the graph
FromNode(graph, socket) == graph.nodes[socket.links[1]]

InitFollow ==
    /\ subject \in [nodes : Graphs, socket : GraphSockets]
    /\ ctx = DefaultCtx
    /\ pc = "follow"
    /\ result = Ok(NoneV)
    /\ scene = [materials |-> {}, world |-> NoWorld]
    /\ stack = <<subject.socket>>
    /\ NoExport

\* the innermost call of follow_link finds a reroute node at its socket and
\* calls follow_link on the input of that node; the interpreter raises
\* RecursionError in place of the call that exceeds its limit
FollowReroute ==
    /\ pc = "follow"
    /\ LET socket == stack[Len(stack)]
       IN  /\ is_linked(socket)
           /\ FromNode(subject, socket).bl_idname = "NodeReroute"
           /\ IF Len(stack) >= RecursionLimit
              THEN /\ result' = Raise("RecursionError")
                   /\ pc' = "returned"
                   /\ stack' = <<>>
              ELSE /\ stack' = Append(stack, FromNode(subject, socket).input)
                   /\ UNCHANGED <<pc, result>>
    /\ UNCHANGED <<ctx, subject, scene, visit, already_exported, mats, media,
                   data_all, conversions, geometryVars>>

\* the innermost call of follow_link returns its socket, and every call that
\* waits for it returns the same socket
FollowReturn ==
    /\ pc = "follow"
    /\ LET socket == stack[Len(stack)]
       IN  /\ ~(is_linked(socket)
                /\ FromNode(subject, socket).bl_idname = "NodeReroute")
           /\ result' = Ok(socket)
    /\ pc' = "returned"
    /\ stack' = <<>>
    /\ UNCHANGED <<ctx, subject, scene, visit, already_exported, mats, media,
                   data_all, conversions, geometryVars>>

NextFollow == FollowReroute \/ FollowReturn

SpecFollow == InitFollow /\ [][NextFollow]_vars

(***************************************************************************)
(* scene.py and materials.py: SceneWriter.write                            *)
(***************************************************************************)
\* get_world_input: the node linked to an input of the World Output node, or
\* None
get_world_input(world, socket_name) ==
    IF world = NoneV THEN Ok(NoneV)
    ELSE IF ~world.use_nodes \/ "World Output" \notin DOMAIN world.nodes THEN Ok(NoneV)
    ELSE LET output_node == world.nodes["World Output"]
         IN  IF \/ socket_name \notin DOMAIN output_node.inputs
                \/ ~is_linked(output_node.inputs[socket_name])
             THEN Ok(NoneV)
             ELSE LinkedNode(output_node.inputs[socket_name])

\* the keys of a medium, in the order in which the converters insert them
KeysOf(d) ==
    SelectSeq(<<"name", "type", "albedo", "total", "real fraction", "density",
                "sigma_s", "sigma_a", "phase function", "gridname">>,
              LAMBDA key : key \in DOMAIN d)

\* the mat_id of materials.export
MatId(mat) == <<"mat-">> \o mat.name_full

\* (NeverExported: an exporter that forgets what it exported)
NeverExported(exported, mat) == FALSE
\* mat_id in ctx.already_exported.keys()
AlreadyExported(exported, mat) == MatId(mat) \in DOMAIN exported

\* mat.name_full == "Dots Stroke" or mat.users == 0
Skipped(mat) == mat.name_full = <<"Dots", " ", "Stroke">> \/ mat.users = 0

\* the default material that every document begins with
DefaultMaterial == [type |-> "diffuse", name |-> <<"default">>, color |-> Num(2)]

RECURSIVE Placeholders(_, _)
\* the DIFFUSE mode of materials.export, over the materials ms: the
\* placeholders, or the exception that ends the loop
Placeholders(ctx_, ms) ==
    IF ms = <<>> THEN Ok(<<>>)
    ELSE IF Skipped(ms[1]) THEN Placeholders(ctx_, Tail(ms))
    ELSE LET params == get_dummy_material(ctx_, <<ms[1].name_full>>)
             rest == Placeholders(ctx_, Tail(ms))
         IN  IF Failed(params) THEN params
             ELSE Returning(rest, <<params.val>> \o rest.val)

Init ==
    /\ scene \in Scenes
    /\ ctx \in {[DefaultCtx EXCEPT !.material_mode = m] : m \in MaterialModes}
    /\ pc = "start"
    /\ subject = NoneV
    /\ result = Ok(NoneV)
    /\ visit = [mesh |-> 0, slot |-> 0]
    /\ already_exported = <<>>
    /\ mats = <<>>
    /\ media = <<>>
    /\ data_all = <<>>
    /\ conversions = [m \in {mat.name_full : mat \in scene.materials} |-> 0]
    /\ surfaces_json = <<>>
    /\ obj_files = <<>>
    /\ volumes_json = <<>>
    /\ stack = <<>>

\* write, up to the call of materials.export: the medium of the world
WorldMedium ==
    /\ pc = "start"
    /\ LET volume_node == get_world_input(scene.world, "Volume")
           medium == cycles_volume_to_dict(ctx, volume_node.val, <<<<"world", " ", "medium">>>>)
       IN  IF Failed(volume_node)
           THEN pc' = "aborted" /\ result' = volume_node /\ UNCHANGED data_all
           ELSE IF volume_node.val = NoneV
           THEN /\ pc' = "materials"
                /\ data_all' = [media |-> <<>>]
                /\ UNCHANGED result
           ELSE IF Failed(medium)
           THEN pc' = "aborted" /\ result' = medium /\ data_all' = [media |-> <<>>]
           \* list.extend of a dict appends its keys
           ELSE /\ pc' = "materials"
                /\ result' = medium
                /\ data_all' = [media |-> [i \in 1..Len(KeysOf(medium.val)) |->
                                             Str(KeysOf(medium.val)[i])]]
    /\ UNCHANGED <<ctx, subject, scene, visit, already_exported, mats, media,
                   conversions>>
    /\ UNCHANGED <<geometryVars, stack>>

\* materials.export in the modes that write the default material only
ExportDefault ==
    /\ pc = "materials"
    /\ ctx.material_mode \notin {"DIFFUSE", "CONVERT"}
    /\ mats' = <<DefaultMaterial>>
    /\ pc' = "exported"
    /\ UNCHANGED <<ctx, subject, result, scene, visit, already_exported, media,
                   data_all, conversions>>
    /\ UNCHANGED <<geometryVars, stack>>

\* materials.export in DIFFUSE mode: a placeholder for each material in use
ExportPlaceholders ==
    /\ pc = "materials"
    /\ ctx.material_mode = "DIFFUSE"
    /\ LET ms == SelectSeq(CatalogueOrder, LAMBDA m : m \in scene.materials)
           r == Placeholders(ctx, ms)
       IN  /\ result' = r
           /\ IF Failed(r) THEN pc' = "aborted" /\ UNCHANGED mats
              ELSE pc' = "exported" /\ mats' = <<DefaultMaterial>> \o r.val
    /\ UNCHANGED <<ctx, subject, scene, visit, already_exported, media, data_all,
                   conversions>>
    /\ UNCHANGED <<geometryVars, stack>>

\* materials.export in CONVERT mode, up to the loop over the meshes
BeginConvert ==
    /\ pc = "materials"
    /\ ctx.material_mode = "CONVERT"
    /\ mats' = <<DefaultMaterial>>
    /\ pc' = "meshes"
    /\ UNCHANGED <<ctx, subject, result, scene, visit, already_exported, media,
                   data_all, conversions>>
    /\ UNCHANGED <<geometryVars, stack>>

\* the loop over the meshes comes to the next mesh
NextMesh ==
    /\ pc = "meshes"
    /\ visit.mesh < MaxMeshes
    /\ visit' = [mesh |-> visit.mesh + 1, slot |-> 0]
    /\ UNCHANGED <<ctx, pc, subject, result, scene, already_exported, mats, media,
                   data_all, conversions>>
    /\ UNCHANGED <<geometryVars, stack>>

\* the end of the body of the loop, r being the result of convert_material:
\* the descriptors are recorded, unless the conversion raised
\* (ConvertedFirst: a loop that puts the descriptor at the head of the list)
ConvertedFirst(mat, r) ==
    /\ result' = r
    /\ conversions' = [conversions EXCEPT ![mat.name_full] = @ + 1]
    /\ IF Failed(r)
       THEN /\ pc' = "aborted"
            /\ UNCHANGED <<already_exported, mats, media>>
       ELSE /\ already_exported' = (MatId(mat) :> r.val.mat) @@ already_exported
            /\ mats' = <<r.val.mat>> \o mats
            /\ media' = IF Truthy(r.val.media)
                        THEN Append(media, r.val.media) ELSE media
            /\ UNCHANGED pc
Converted(mat, r) ==
    /\ result' = r
    /\ conversions' = [conversions EXCEPT ![mat.name_full] = @ + 1]
    /\ IF Failed(r)
       THEN /\ pc' = "aborted"
            /\ UNCHANGED <<already_exported, mats, media>>
       ELSE /\ already_exported' = (MatId(mat) :> r.val.mat) @@ already_exported
            /\ mats' = Append(mats, r.val.mat)
            /\ media' = IF Truthy(r.val.media)
                        THEN Append(media, r.val.media) ELSE media
            /\ UNCHANGED pc

\* the loop over the materials of the mesh comes to the next slot, which
\* holds mat: the body of the loop
VisitSlot ==
    /\ pc = "meshes"
    /\ visit.mesh >= 1
    /\ visit.slot < MaxSlots
    /\ \E mat \in SlotChoices(scene) :
         /\ visit' = [visit EXCEPT !.slot = @ + 1]
         /\ subject' = mat
         /\ IF mat = EmptySlot
            THEN /\ result' = Ok(NoneV)
                 /\ UNCHANGED <<pc, already_exported, mats, media, conversions>>
            ELSE IF Skipped(mat) \/ AlreadyExported(already_exported, mat)
            THEN /\ result' = Ok(NoneV)
                 /\ UNCHANGED <<pc, already_exported, mats, media, conversions>>
            ELSE Converted(mat, convert_material(ctx, mat))
    /\ UNCHANGED <<ctx, scene, data_all>>
    /\ UNCHANGED <<geometryVars, stack>>

\* the loop over the meshes ends and materials.export returns
EndConvert ==
    /\ pc = "meshes"
    /\ pc' = "exported"
    /\ UNCHANGED <<ctx, subject, result, scene, visit, already_exported, mats, media,
                   data_all, conversions>>
    /\ UNCHANGED <<geometryVars, stack>>

\* write, from the return of materials.export: the media and the materials
\* enter the document and the document is written
WriteDocument ==
    /\ pc = "exported"
    /\ data_all' = [media |-> data_all["media"] \o media, materials |-> mats]
    /\ pc' = "written"
    /\ UNCHANGED <<ctx, subject, result, scene, visit, already_exported, mats, media,
                   conversions>>
    /\ UNCHANGED <<geometryVars, stack>>

Next ==
    \/ WorldMedium
    \/ ExportDefault
    \/ ExportPlaceholders
    \/ BeginConvert
    \/ NextMesh
    \/ VisitSlot
    \/ EndConvert
    \/ WriteDocument

Spec == Init /\ [][Next]_vars

(***************************************************************************)
(* geometry.py: the meshes, after the materials                            *)
(***************************************************************************)
MeshModes == {"SINGLE", "SPLIT"}

\* the names of the objects of a scene; an object can carry the name of a
\* material, and two objects can carry one name when one of them is linked
\* from a library
ObjectNames == {<<"Cube">>, <<"Fog">>}

\* matrix_world of an object: the rows of a 4x4 matrix
Identity4 == <<<<1, 0, 0, 0>>, <<0, 1, 0, 0>>, <<0, 0, 1, 0>>, <<0, 0, 0, 1>>>>
Objects == [name : ObjectNames, matrix_world : {Identity4}]

RECURSIVE Flatten(_)
\* list(i for j in mat for i in j)
Flatten(rows) == IF rows = <<>> THEN <<>> ELSE rows[1] \o Flatten(Tail(rows))

\* Matrix.to_4x4 of a 3x3 matrix
To4x4(m) == [i \in 1..3 |-> Append(m[i], 0)] \o <<<<0, 0, 0, 1>>>>

transform_matrix(matrix) ==
    [matrix |-> Flatten(IF Len(matrix) = 4 THEN matrix ELSE To4x4(matrix))]

\* os.path.join("meshes", obj_name + ".obj")
RelativePath(obj_name) == <<"meshes/">> \o obj_name \o <<".obj">>

\* the obj_id of write_obj
\* (ObjIdAsMaterial: a key with the prefix of the keys of the materials)
ObjIdAsMaterial(obj_name) == <<"mat-">> \o obj_name
ObjId(obj_name) == <<"obj-">> \o RelativePath(obj_name)

\* obj_params of write_obj
ObjParams(obj_name) ==
    [type |-> "mesh", name |-> obj_name, filename |-> Str(RelativePath(obj_name)),
     material |-> Str(<<"default">>)]
    @@ ("vertex colorspace" :> Str(<<"srgb">>))

\* write_obj by way of write_meshes: a warning when the OBJ file was exported
\* before, the OBJ file written when the option asks for it, and the
\* descriptor params recorded and appended to surfaces_json
WriteObj(obj_name, params) ==
    /\ result' = WithWarn(IF ObjId(obj_name) \in DOMAIN already_exported THEN 1 ELSE 0,
                          Ok(params))
    /\ obj_files' =
          IF ctx.write_obj_files
          THEN (RelativePath(obj_name) :>
                  IF RelativePath(obj_name) \in DOMAIN obj_files
                  THEN obj_files[RelativePath(obj_name)] + 1 ELSE 1) @@ obj_files
          ELSE obj_files
    /\ already_exported' = (ObjId(obj_name) :> params) @@ already_exported
    /\ surfaces_json' = Append(surfaces_json, params)
    /\ UNCHANGED volumes_json

\* os.path.basename(os.path.splitext(ctx.filepath)[0])
SceneName(filepath) == SubSeq(filepath, 1, Len(filepath) - 1)

\* write, from the return of materials.export: the media and the materials
\* enter the document
StoreMaterials ==
    /\ pc = "exported"
    /\ data_all' = [media |-> data_all["media"] \o media, materials |-> mats]
    /\ pc' = "surfaces"
    /\ UNCHANGED <<ctx, subject, result, scene, visit, already_exported, mats, media,
                   conversions, geometryVars, stack>>

\* geometry.export in SINGLE mode: one OBJ file for the scene
ExportSingle ==
    /\ pc = "surfaces"
    /\ ctx.mesh_mode = "SINGLE"
    /\ WriteObj(SceneName(ctx.filepath), ObjParams(SceneName(ctx.filepath)))
    /\ pc' = "geometry"
    /\ UNCHANGED <<ctx, subject, scene, visit, mats, media, data_all, conversions,
                   stack>>

\* how many objects the scene holds: materials.export visited them all in
\* CONVERT mode
ObjectCount == IF ctx.material_mode = "CONVERT" THEN visit.mesh ELSE MaxMeshes

\* geometry.export in SPLIT mode: the loop comes to the next object
ExportObject ==
    /\ pc = "surfaces"
    /\ ctx.mesh_mode # "SINGLE"
    /\ Len(surfaces_json) < ObjectCount
    /\ \E object \in Objects :
          /\ subject' = object
          /\ WriteObj(object.name,
                      Update(ObjParams(object.name),
                             [transform |-> transform_matrix(object.matrix_world)]))
    /\ UNCHANGED <<ctx, pc, scene, visit, mats, media, data_all, conversions, stack>>

\* geometry.export in SPLIT mode: the loop ends
EndSplit ==
    /\ pc = "surfaces"
    /\ ctx.mesh_mode # "SINGLE"
    /\ ctx.material_mode = "CONVERT" => Len(surfaces_json) = ObjectCount
    /\ pc' = "geometry"
    /\ UNCHANGED <<ctx, subject, result, scene, visit, already_exported, mats, media,
                   data_all, conversions, geometryVars, stack>>

\* write, from the return of geometry.export: the surfaces enter the document
StoreSurfaces ==
    /\ pc = "geometry"
    /\ data_all' = Update(data_all, [surfaces |-> surfaces_json])
    /\ pc' = "surfaces stored"
    /\ UNCHANGED <<ctx, subject, result, scene, visit, already_exported, mats, media,
                   conversions, geometryVars, stack>>

\* the scenes whose meshes are exported: few materials, and no world
GeometryScenes ==
    [materials : {m \in SUBSET {MatteRed, Fog} : Cardinality(m) <= MaxMaterials},
     world : {NoWorld}]

InitGeometry ==
    /\ scene \in GeometryScenes
    /\ ctx \in {[DefaultCtx EXCEPT !.material_mode = m, !.mesh_mode = g,
                                    !.write_obj_files = w] :
                   m \in MaterialModes, g \in MeshModes, w \in BOOLEAN}
    /\ pc = "start"
    /\ subject = NoneV
    /\ result = Ok(NoneV)
    /\ conversions = [m \in {mat.name_full : mat \in scene.materials} |-> 0]
    /\ visit = [mesh |-> 0, slot |-> 0]
    /\ already_exported = <<>>
    /\ mats = <<>>
    /\ media = <<>>
    /\ data_all = <<>>
    /\ surfaces_json = <<>>
    /\ obj_files = <<>>
    /\ volumes_json = <<>>
    /\ stack = <<>>

NextGeometry ==
    \/ WorldMedium
    \/ ExportDefault
    \/ ExportPlaceholders
    \/ BeginConvert
    \/ NextMesh
    \/ VisitSlot
    \/ EndConvert
    \/ StoreMaterials
    \/ ExportSingle
    \/ ExportObject
    \/ EndSplit
    \/ StoreSurfaces

SpecGeometry == InitGeometry /\ [][NextGeometry]_vars

(***************************************************************************)
(* scene.py: the volume objects, on their own                              *)
(***************************************************************************)
\* os.path.splitext(os.path.basename(vdb_path))[0]
VdbFileName(path) == IF Len(path) > 1 THEN SubSeq(path, 1, Len(path) - 1) ELSE path

\* min(bb[i] for bb in bound_box) and max(bb[i] for bb in bound_box), by axis
MinCorner(bound_box) ==
    [i \in 1..3 |-> CHOOSE x \in {bb[i] : bb \in Range(bound_box)} :
                      \A bb \in Range(bound_box) : x <= bb[i]]
MaxCorner(bound_box) ==
    [i \in 1..3 |-> CHOOSE x \in {bb[i] : bb \in Range(bound_box)} :
                      \A bb \in Range(bound_box) : x >= bb[i]]

\* convert_volume_vdb_node applied to the node that the Volume input leads
\* to, of whatever kind: node.inputs[...] of an input that the node lacks
\* is a KeyError, and the or of the three is_linked tests stops at the first
\* that holds
VdbMedium(self, node) ==
    IF "Color" \notin DOMAIN node.inputs THEN Raise("KeyError")
    ELSE IF is_linked(node.inputs["Color"]) THEN Raise("NotImplementedError")
    ELSE IF "Density" \notin DOMAIN node.inputs THEN Raise("KeyError")
    ELSE IF is_linked(node.inputs["Density"]) THEN Raise("NotImplementedError")
    ELSE IF {"Absorption Color", "Anisotropy", "Density Attribute"}
            \ DOMAIN node.inputs # {}
    THEN Raise("KeyError")
    ELSE convert_volume_vdb_node(self, node)

\* mat_params["interior medium"] of convert_nanovdb
NanovdbMedium(self, mat, volume_node) ==
    IF HasLink(mat, "Volume")
    THEN IF Failed(volume_node) THEN volume_node ELSE VdbMedium(self, volume_node.val)
    ELSE Ok(NoneV)

\* the try body of convert_nanovdb from the surface on, surface and medium
\* being the two conversions: only the branch of a linked Volume input has a
\* return statement, and the function returns None when it is not taken
NanovdbBody(volume, mat, surface, medium) ==
    IF Failed(surface) THEN surface
    ELSE IF ~HasLink(mat, "Volume") THEN WithWarn(surface.warn, Ok(NoneV))
    ELSE IF Failed(medium) THEN WithWarn(surface.warn, medium)
    ELSE WithWarn(surface.warn + medium.warn,
           Ok(Update(surface.val,
                     "interior medium" :>
                        Update(medium.val,
                               [transform |-> transform_matrix(volume.matrix_world),
                                filename |-> Str(<<"volumes/">>
                                                 \o VdbFileName(volume.filepath)
                                                 \o <<".nvdb">>)]))))

\* the except clause of convert_nanovdb: the warning names mat, and
\* get_dummy_material is called without its name argument
NanovdbRecover(mat_bound, body) ==
    IF ~mat_bound THEN WithWarn(body.warn, Raise("UnboundLocalError"))
    ELSE WithWarn(body.warn + 1, Raise("TypeError"))

NanovdbTry(body) ==
    IF body.exc = "NotImplementedError" THEN NanovdbRecover(TRUE, body) ELSE body

\* volume is [name, materials, matrix_world, bound_box, filepath]: materials
\* is volume.data.materials and filepath is volume.data.grids.frame_filepath
convert_nanovdb(self, volume) ==
    LET mat == volume.materials[1]
        output_node == mat.nodes["Material Output"]
    IN  IF volume.materials = <<>>
        THEN NanovdbRecover(FALSE, Raise("NotImplementedError"))
        \* mat is None: the warning reads mat.name_full
        ELSE IF mat = EmptySlot THEN Raise("AttributeError")
        ELSE IF Skipped(mat) \/ ~mat.use_nodes
                \/ "Material Output" \notin DOMAIN mat.nodes
        THEN NanovdbRecover(TRUE, Raise("NotImplementedError"))
        ELSE NanovdbTry(
               NanovdbBody(volume, mat,
                           SurfaceParams(self, mat,
                                         LinkedNode(output_node.inputs["Surface"])),
                           NanovdbMedium(self, mat,
                                         LinkedNode(output_node.inputs["Volume"]))))

\* materials of volume objects: a Principled Volume node with each set of
\* its numeric inputs linked, below a surface or none
CloudMaterials ==
    {Material(<<"Cloud">>, 1, surface, Linked(node, "Volume")) :
       surface \in {NoShader, Linked(DiffuseNode(Red, NoNormal), "BSDF"),
                    Linked(PrincipledNode, "BSDF")},
       node \in {n \in VolumeNodes : n.bl_idname = "ShaderNodeVolumePrincipled"}}

\* the corners of the bounding box of a volume object
UnitBox ==
    <<<<0, 0, 0>>, <<0, 0, 10>>, <<0, 10, 10>>, <<0, 10, 0>>,
      <<10, 0, 0>>, <<10, 0, 10>>, <<10, 10, 10>>, <<10, 10, 0>>>>

\* the volume objects: without a material, with an empty slot, or with a
\* material in their first slot
VolumeObjects ==
    [name : {<<"Smoke">>},
     materials : {<<>>, <<EmptySlot>>} \cup {<<m>> : m \in Catalogue \cup CloudMaterials},
     matrix_world : {Identity4},
     bound_box : {UnitBox},
     filepath : {<<"smoke", ".vdb">>}]

InitNanovdb ==
    /\ subject \in VolumeObjects
    /\ ctx \in {[DefaultCtx EXCEPT !.force_two_sided = two] : two \in BOOLEAN}
    /\ pc = "volumes"
    /\ result = Ok(NoneV)
    /\ scene = [materials |-> {}, world |-> NoWorld]
    /\ stack = <<>>
    /\ NoExport

\* export_volumes comes to the volume object and converts its material
ConvertNanovdb ==
    /\ pc = "volumes"
    /\ result' = convert_nanovdb(ctx, subject)
    /\ pc' = IF Failed(result') THEN "volumes aborted" ELSE "volume material"
    /\ UNCHANGED <<ctx, subject, exportVars>>

\* export_volumes appends the cube of the volume object, with the material,
\* and returns
AppendVolume ==
    /\ pc = "volume material"
    /\ volumes_json' =
          Append(volumes_json,
                 [type |-> "cube", name |-> subject.name,
                  transform |-> transform_matrix(subject.matrix_world),
                  material |-> result.val]
                 @@ ("min corner" :> MinCorner(subject.bound_box))
                 @@ ("max corner" :> MaxCorner(subject.bound_box)))
    /\ pc' = "volumes exported"
    /\ UNCHANGED <<ctx, subject, result, scene, visit, already_exported, mats, media,
                   data_all, conversions, surfaces_json, obj_files, stack>>

NextNanovdb == ConvertNanovdb \/ AppendVolume

SpecNanovdb == InitNanovdb /\ [][NextNanovdb]_vars

(***************************************************************************)
(* Properties of the texture conversion                                    *)
(***************************************************************************)
\* the socket's link ends, through reroute nodes, at a node
Reaches(socket) == is_linked(socket) /\ is_linked(follow_link(socket))
TargetNode(socket) == follow_link(socket).links[1].from_node

ProceduralKinds ==
    {"ShaderNodeTexNoise", "ShaderNodeTexWhiteNoise", "ShaderNodeTexVoronoi",
     "ShaderNodeTexMusgrave", "ShaderNodeTexWave"}

\* The dimensionality that a procedural node declares; a wave texture declares
\* none and is evaluated over its three-dimensional Vector input.
DeclaredDims(node) ==
    CASE node.bl_idname = "ShaderNodeTexVoronoi" -> dimensions[node.voronoi_dimensions]
      [] node.bl_idname = "ShaderNodeTexWave" -> 3
      [] OTHER -> dimensions[node.noise_dimensions]

\* the node kind has a capability flag and the flag is off
DisabledKind(node) ==
    node.bl_idname \in DOMAIN FlagOf /\ FlagOf[node.bl_idname] \in ctx.disabled

\* the socket was converted and its link ends at a procedural texture node
\* whose capability is on
ProceduralConverted ==
    /\ pc = "converted"
    /\ Reaches(subject)
    /\ TargetNode(subject).bl_idname \in ProceduralKinds
    /\ ~DisabledKind(TargetNode(subject))
    /\ ~Failed(result)

\* C8: the descriptor of a procedural texture node (noise, white noise,
\* voronoi, musgrave, wave) whose capability is on has a "w" field exactly
\* when the declared dimensionality is 1 or 4, and a "vector" field exactly
\* when the dimensionality is not 1 and the Vector input is linked.
C8_ProceduralFields ==
    ProceduralConverted =>
        LET node == TargetNode(subject)
            dims == DeclaredDims(node)
        IN  /\ IsDict(result.val)
            /\ ("w" \in DOMAIN result.val) <=> (dims \in {1, 4})
            /\ ("vector" \in DOMAIN result.val)
                 <=> (dims # 1 /\ is_linked(node.inputs["Vector"]))

\* a four-dimensional noise texture with a linked Vector input was converted:
\* its descriptor has both fields
C8_Witness ==
    /\ ProceduralConverted
    /\ TargetNode(subject).bl_idname = "ShaderNodeTexNoise"
    /\ DeclaredDims(TargetNode(subject)) = 4
    /\ is_linked(TargetNode(subject).inputs["Vector"])
    /\ {"w", "vector"} \subseteq DOMAIN result.val

\* the two values that stand for a disabled node
Substitutes == {Num(5), Vec(<<0, 10, 3>>)}

\* the inputs of node that are driven by a node of a disabled kind
DisabledInputs(node) ==
    {i \in DOMAIN node.inputs :
       Reaches(node.inputs[i]) /\ DisabledKind(TargetNode(node.inputs[i]))}

\* the fields in which two descriptors differ
Differing(on, off) ==
    {key \in DOMAIN on \cup DOMAIN off :
       key \notin DOMAIN on \cap DOMAIN off \/ on[key] # off[key]}

\* The node that drives the subject is enabled and converts to a descriptor,
\* with the flags as they are and with every flag on: the two descriptors
\* differ only in fields that hold one of the values of subs, at most one
\* field for each input that a node of a disabled kind drives.
SiblingsUnchanged(subs) ==
    LET node == TargetNode(subject)
        on == convert_texture_node([ctx EXCEPT !.disabled = {}], subject)
    IN  (/\ ctx.disabled # {}
         /\ ~DisabledKind(node)
         /\ ~Failed(result) /\ IsDict(result.val)
         /\ ~Failed(on) /\ IsDict(on.val))
        => LET diff == Differing(on.val, result.val)
           IN  /\ diff \subseteq DOMAIN on.val \cap DOMAIN result.val
               /\ \A key \in diff : result.val[key] \in subs
               /\ Cardinality(diff) <= Cardinality(DisabledInputs(node))

SubstitutesOf(node) ==
    IF node.bl_idname = "ShaderNodeMapping" THEN {NoneV} ELSE Substitutes

SocketConverted == pc = "converted" /\ "links" \in DOMAIN subject

\* the conversion of the socket gave the result r
ConvertsAs(r) == result = r

\* C12: the conversion of a socket through a chain of reroute nodes gives
\* what the conversion of the input socket of the last reroute node of the
\* chain gives: its literal when nothing is linked to it, and the conversion
\* of the node that drives it otherwise.
C12_RerouteChain ==
    SocketConverted => ConvertsAs(convert_texture_node(ctx, follow_link(subject)))

(***************************************************************************)
(* Properties of the volume conversion                                     *)
(***************************************************************************)
\* a volume node was converted
VolumeConverted == pc = "medium"

\* C16: the conversion of a volume node of one of the three kinds raises
\* NotImplementedError whenever one of its numeric inputs (color, density,
\* anisotropy, absorption color) is linked: no linked input is replaced by
\* its default value.
C16_LinkedInputUnsupported ==
    (/\ VolumeConverted
     /\ subject.node.bl_idname \in volume_converters
     /\ \E i \in NumericInputs(subject.node) : is_linked(subject.node.inputs[i])) =>
        result.exc = "NotImplementedError"

\* C17: cycles_volume_to_dict returns a medium with a type for a node of one
\* of the three kinds none of whose inputs is linked, and raises
\* NotImplementedError for a node of any other kind.
C17_ThreeVolumeKinds ==
    VolumeConverted =>
        IF subject.node.bl_idname \in volume_converters
        THEN (\A i \in DOMAIN subject.node.inputs : ~is_linked(subject.node.inputs[i])) =>
                ~Failed(result) /\ "type" \in DOMAIN result.val
        ELSE result.exc = "NotImplementedError"

(***************************************************************************)
(* Properties of the value normalizer                                      *)
(***************************************************************************)
\* the entries of a sequence with their types: those of a list of floats are
\* floats
ItemsOf(value) ==
    IF value.k = "vec" THEN [i \in 1..Len(value.s) |-> [t |-> "float", v |-> value.s[i]]]
    ELSE value.items

\* C14: the normalizer maps a sequence of one number to that number, a
\* sequence of three numbers to itself and a sequence of four numbers to its
\* first three entries; for a sequence of mixed types, and for a sequence of
\* any other length (0, 2, 5 or more), it raises ValueError.
C14_ColorShapes ==
    (pc = "normalized" /\ subject.k \in {"vec", "list"}) =>
        LET items == ItemsOf(subject)
            n == Len(items)
            numeric == \A i \in 1..n : items[i].t \in {"float", "int"}
            mixed == \E i \in 1..(n - 1) : items[i].t # items[i + 1].t
        IN  /\ (numeric /\ ~mixed /\ n = 1) => result = Ok(Num(items[1].v))
            /\ (numeric /\ ~mixed /\ n \in {3, 4}) =>
                  result = Ok(Vec([i \in 1..3 |-> items[i].v]))
            /\ (mixed \/ n \notin {1, 3, 4}) => result.exc = "ValueError"

(***************************************************************************)
(* Properties of follow_link                                               *)
(***************************************************************************)
RECURSIVE OnlyReroutes(_, _, _)
\* the n first links of the chain from the socket come from reroute nodes
OnlyReroutes(graph, socket, n) ==
    \/ n = 0
    \/ /\ is_linked(socket)
       /\ FromNode(graph, socket).bl_idname = "NodeReroute"
       /\ OnlyReroutes(graph, FromNode(graph, socket).input, n - 1)

\* the chain of reroute nodes from the socket comes to a node a second time
Cyclic(graph) == OnlyReroutes(graph, graph.socket, MaxGraphNodes + 1)

\* C13: follow_link, applied to a socket whose chain of reroute nodes holds a
\* cycle, ends with a graph-cycle error.
C13_CycleFails ==
    (pc = "returned" /\ "nodes" \in DOMAIN subject /\ Cyclic(subject)) =>
        result.exc = "GraphCycleError"

(***************************************************************************)
(* Properties of the surface conversion                                    *)
(***************************************************************************)
\* the surface node was converted and the conversion returned a descriptor
SurfaceConverted == pc = "converted" /\ "node" \in DOMAIN subject /\ ~Failed(result)

\* the kinds whose converters call make_two_sided
TwoSidedKinds ==
    {"ShaderNodeBsdfDiffuse", "ShaderNodeBsdfGlossy", "ShaderNodeBsdfAnisotropic"}
\* the other opaque kinds
CompositeKinds == {"ShaderNodeMixShader", "ShaderNodeAddShader", "ShaderNodeEmission"}
MapTypes == {"normal map", "bump map"}

\* the Normal input of the node is linked to a normal map or bump node that
\* the options let the exporter use
WrapperApplies(node) ==
    /\ "Normal" \in DOMAIN node.inputs
    /\ Reaches(node.inputs["Normal"])
    /\ LET n == TargetNode(node.inputs["Normal"])
       IN  \/ n.bl_idname = "ShaderNodeNormalMap" /\ ctx.use_normal_maps
           \/ n.bl_idname = "ShaderNodeBump" /\ ctx.use_bump_maps

\* an emission node with literal strength and color whose radiance, strength
\* times color, is 0 in each of the three color channels
ZeroRadiance(node) ==
    /\ node.bl_idname = "ShaderNodeEmission"
    /\ ~is_linked(node.inputs["Strength"])
    /\ ~is_linked(node.inputs["Color"])
    /\ \A i \in 1..3 :
          node.inputs["Color"].default_value.s[i]
            * node.inputs["Strength"].default_value.n = 0

\* C5: an emission node whose radiance is 0 in every color channel converts
\* to a diffuse descriptor with the color 0, never to an emission descriptor,
\* for every strength and every color, black with a nonzero strength included.
C5_ZeroRadianceIsDiffuse ==
    (pc = "converted" /\ "node" \in DOMAIN subject /\ ZeroRadiance(subject.node)) =>
        /\ ~Failed(result)
        /\ result.val["type"] = "diffuse"
        /\ result.val["color"] = Num(0)

AdapterAround(off) ==
    /\ result.val["type"] = "two sided"
    /\ ~Failed(off)
    /\ off.val["type"] # "two sided"
    /\ result.val["both sides"] = Without(off.val, "name")

BothWrappersApply ==
    /\ SurfaceConverted
    /\ subject.node.bl_idname \in TwoSidedKinds
    /\ ctx.force_two_sided
    /\ WrapperApplies(subject.node)

MixOfDiffuse(node) ==
    /\ node.bl_idname = "ShaderNodeMixShader"
    /\ ~is_linked(node.inputs["Fac"])
    /\ \A i \in {"1", "2"} :
          /\ Reaches(node.inputs[i])
          /\ TargetNode(node.inputs[i]).bl_idname = "ShaderNodeBsdfDiffuse"
          /\ ~is_linked(TargetNode(node.inputs[i]).inputs["Color"])
          /\ ~WrapperApplies(TargetNode(node.inputs[i]))

\* the descriptor of a diffuse node with literal inputs
DiffuseOf(node) ==
    [type |-> "diffuse",
     color |-> Vec(SubSeq(node.inputs["Color"].default_value.s, 1, 3)),
     roughness |-> node.inputs["Roughness"].default_value]

TwoSided(d) == ("type" :> "two sided") @@ ("both sides" :> d)

GlassConverted ==
    /\ SurfaceConverted
    /\ subject.node.bl_idname = "ShaderNodeBsdfGlass"
    /\ ~WrapperApplies(subject.node)

\* the descriptor carries the conversion col as reflectance and transmittance
CarriesColor(col) ==
    /\ ~Failed(col)
    /\ result.val["reflectance"] = col.val
    /\ result.val["transmittance"] = col.val

\* C11: a glass node converts to "rough dielectric" exactly when its
\* roughness is not 0 (a literal other than 0, or a texture) and its
\* distribution is not SHARP; otherwise to "thin dielectric" when the literal
\* IOR is 1.0 and to "dielectric" when it is not. The descriptor carries the
\* literal IOR as ior, and the converted Color input as reflectance and as
\* transmittance.
C11_GlassDescriptor ==
    GlassConverted =>
        LET node == subject.node
            rsock == node.inputs["Roughness"]
            rough == /\ is_linked(rsock) \/ rsock.default_value.n # 0
                     /\ node.distribution # "SHARP"
            ior == node.inputs["IOR"].default_value
        IN  /\ result.val["type"] = IF rough THEN "rough dielectric"
                                    ELSE IF ior = Num(10) THEN "thin dielectric"
                                    ELSE "dielectric"
            /\ result.val["ior"] = ior
            /\ CarriesColor(convert_texture_node(ctx, node.inputs["Color"]))

\* a glass node of roughness 0.5, distribution GGX and IOR 1.0 was converted
\* to a rough dielectric, and one of roughness 0 would be a thin dielectric
C11_Witness ==
    /\ GlassConverted
    /\ subject.node.distribution = "GGX"
    /\ subject.node.inputs["Roughness"] = Float(5)
    /\ subject.node.inputs["IOR"] = Float(10)
    /\ result.val["type"] = "rough dielectric"
    /\ result.val["roughness"] = Num(5)
    /\ result.val["distribution"] = Str("ggx")
    /\ result.val["ior"] = Num(10)
    /\ result.val["reflectance"] = Vec(<<10, 10, 10>>)

(***************************************************************************)
(* Properties of the export                                                *)
(***************************************************************************)
\* the descriptors of the list that carry the name of the material
Named(list, mat) ==
    {i \in 1..Len(list) :
       "name" \in DOMAIN list[i] /\ list[i]["name"] = material_name(mat.name_full)}

\* C1: in CONVERT mode materials.export converts each material at most once
\* and appends at most one descriptor for it, however many slots of however
\* many meshes hold it.
C1_ConvertedAtMostOnce ==
    ctx.material_mode = "CONVERT" =>
        /\ \A mat \in scene.materials :
              /\ conversions[mat.name_full] <= 1
              /\ Cardinality(Named(mats, mat)) <= 1
        /\ Len(mats) <= 1 + Cardinality({mat \in scene.materials :
                                           conversions[mat.name_full] > 0})

\* a slot of the second mesh holds a material that was converted before: the
\* slot is skipped and the material has one conversion and one descriptor
C1_Witness ==
    /\ pc = "meshes"
    /\ visit.mesh = 2
    /\ subject \in scene.materials
    /\ AlreadyExported(already_exported, subject)
    /\ result = Ok(NoneV)
    /\ conversions[subject.name_full] = 1
    /\ Cardinality(Named(mats, subject)) = 1

\* the last slot that was visited held a material that convert_material was
\* applied to
JustConverted ==
    /\ pc \in {"meshes", "exported", "written", "aborted"}
    /\ subject \in scene.materials
    /\ Failed(result) \/ "mat" \in DOMAIN result.val

\* the dummy placeholder that carries the name of the material
DummyOf(mat) ==
    [type |-> "diffuse", color |-> Vec(<<10, 0, 3>>),
     name |-> material_name(mat.name_full)]

\* the materials whose conversion comes to a node of a kind that the surface
\* or the texture dispatch table lacks
UnknownKindMaterials == {Principled, SkyPaint, Coated}

\* C2: when the surface node of a material, or a node that the conversion
\* reaches from it, is of a kind that the dispatch tables lack,
\* convert_material reports a warning and returns the dummy placeholder with
\* the name of the material, and materials.export appends it and goes on.
C2_UnknownKindPlaceholder ==
    (JustConverted /\ subject \in UnknownKindMaterials) =>
        /\ ~Failed(result)
        /\ result.warn >= 1
        /\ result.val.mat = DummyOf(subject)
        /\ result.val.media = NoneV
        /\ pc # "aborted"
        /\ mats[Len(mats)] = DummyOf(subject)
        /\ already_exported[MatId(subject)] = DummyOf(subject)

\* the document was written with the placeholder of a material of an unknown
\* kind, followed by the descriptor of a material that was converted after it
C2_Witness ==
    /\ pc = "written"
    /\ Len(data_all["materials"]) = 3
    /\ \E mat \in UnknownKindMaterials : data_all["materials"][2] = DummyOf(mat)
    /\ subject = MatteRed
    /\ data_all["materials"][3]["type"] = "two sided"
    /\ data_all["materials"][3]["name"] = <<"Matte", "_", "Red">>

\* C3: write runs to the end and writes the document: no node of an
\* unsupported kind, in the graph of a material, of the volume of a material
\* or of the volume of the world, ends the export before that.
C3_NoUnsupportedNodeAborts ==
    ~(pc = "aborted" /\ result.exc = "NotImplementedError")

\* the materials with a mix node that has one shader input linked
HalfMixMaterials == {HalfMix, NestedHalfMix}

\* C4 as the specification states it: the conversion of a material with a
\* half-linked mix node returns the dummy placeholder and reports exactly one
\* warning.
C4_AsStated ==
    (JustConverted /\ subject \in HalfMixMaterials) =>
        /\ ~Failed(result)
        /\ result.val.mat = DummyOf(subject)
        /\ result.warn = 1

\* the surface node of the material
SurfaceNodeOf(mat) == TargetNode(mat.nodes["Material Output"].inputs["Surface"])

\* the conversion surface of the surface node failed for an unsupported
\* node, and the result reports one warning more than it
OneMoreWarning(surface) ==
    surface.exc = "NotImplementedError" /\ result.warn = surface.warn + 1

\* C4, amended: the conversion of a material with a half-linked mix node
\* returns the dummy placeholder and reports exactly one warning for the
\* failure, after the warnings of the nodes that were converted before the
\* mix node; it is the only warning when the mix node is the surface node.
C4_HalfMixPlaceholder ==
    (JustConverted /\ subject \in HalfMixMaterials) =>
        /\ ~Failed(result)
        /\ result.val.mat = DummyOf(subject)
        /\ OneMoreWarning(cycles_surface_to_dict(ctx, SurfaceNodeOf(subject),
                                                 <<subject.name_full>>))
        /\ SurfaceNodeOf(subject) = HalfMixNode => result.warn = 1

\* the half-linked mix node is a branch next to a glass node that reported a
\* warning: the material was converted to the placeholder with two warnings
C4_Witness ==
    /\ JustConverted
    /\ subject = NestedHalfMix
    /\ result.val.mat = DummyOf(NestedHalfMix)
    /\ result.warn = 2
    /\ pc = "meshes"

\* the materials with a literal that the value normalizer rejects
MalformedMaterials == {Malformed}

\* C15: when the value normalizer raises for a literal of a material that is
\* converted, convert_material reports a warning and returns the dummy
\* placeholder with the name of the material, and the export goes on.
C15_MalformedLiteralRecovered ==
    (JustConverted /\ subject \in MalformedMaterials) =>
        /\ ~Failed(result)
        /\ result.warn >= 1
        /\ result.val.mat = DummyOf(subject)
        /\ pc # "aborted"

\* where the material of the name stands in bpy.data.materials
OrderOf(name) ==
    CHOOSE i \in 1..Len(CatalogueOrder) :
        material_name(CatalogueOrder[i].name_full) = name

\* the list materials of materials.export begins with the default material;
\* the descriptor of the material that was just converted is its last, and
\* the placeholders of DIFFUSE mode follow the order of bpy.data.materials
DefaultFirst ==
    pc \in {"meshes", "exported", "written"} =>
        /\ Len(mats) >= 1
        /\ mats[1] = [type |-> "diffuse", name |-> <<"default">>, color |-> Num(2)]
        /\ (JustConverted /\ ~Failed(result)) => mats[Len(mats)] = result.val.mat
        /\ ctx.material_mode \in {"OFF", "ONE"} => Len(mats) = 1
        /\ ctx.material_mode = "DIFFUSE" =>
              \A i, j \in 2..Len(mats) :
                 i < j => OrderOf(mats[i]["name"]) < OrderOf(mats[j]["name"])

\* a step leaves the descriptors of the list where they are: it appends to
\* the list or leaves it alone
AppendOnly ==
    mats # <<>> => Len(mats') >= Len(mats) /\ SubSeq(mats', 1, Len(mats)) = mats

\* C20: in every material mode the list of materials.export begins with the
\* default diffuse material of color 0.2, and the converted materials and
\* the placeholders follow it in the order in which the export came to them.
C20_DefaultMaterialFirst == []DefaultFirst /\ [][AppendOnly]_vars

\* materials.export returned in CONVERT mode: the default material, then
\* Matte Red, then Fog, which was converted last
C20_Witness ==
    /\ pc = "exported"
    /\ ctx.material_mode = "CONVERT"
    /\ Len(mats) = 3
    /\ mats[1]["name"] = <<"default">>
    /\ "name" \in DOMAIN mats[2]
    /\ mats[2]["name"] = <<"Matte", "_", "Red">>
    /\ mats[3]["type"] = "transparent"
    /\ mats[3]["interior medium"] = Str(<<"Fog", " ", "volume">>)
    /\ subject = Fog
    /\ JustConverted

(***************************************************************************)
(* Properties of the export of the meshes                                  *)
(***************************************************************************)
\* the descriptors of the list that point to the OBJ file of the name
Emitted(list, obj_name) ==
    {i \in 1..Len(list) : list[i]["filename"] = Str(RelativePath(obj_name))}

\* how often the OBJ file of the name was written
Written(obj_name) ==
    IF RelativePath(obj_name) \in DOMAIN obj_files
    THEN obj_files[RelativePath(obj_name)] ELSE 0

\* C18: in one run of the export the OBJ file of a name is written at most
\* once and at most one descriptor points to it, however many objects carry
\* the name.
C18_MeshAtMostOnce ==
    \A obj_name \in ObjectNames \cup {SceneName(ctx.filepath)} :
        /\ Written(obj_name) <= 1
        /\ Cardinality(Emitted(surfaces_json, obj_name)) <= 1

\* C19: the key of a material and the key of a mesh differ even when the two
\* carry one name: in ctx.already_exported every material that was converted
\* keeps its own descriptor under its key, and every mesh that was exported
\* has a mesh descriptor with its name under its key.
C19_KeysNamespaced ==
    /\ \A mat \in scene.materials :
          MatId(mat) \in DOMAIN already_exported =>
              /\ already_exported[MatId(mat)]["type"] # "mesh"
              /\ \E i \in 1..Len(mats) : mats[i] = already_exported[MatId(mat)]
    /\ \A i \in 1..Len(surfaces_json) :
          LET obj_name == surfaces_json[i]["name"]
          IN  /\ ObjId(obj_name) \in DOMAIN already_exported
              /\ already_exported[ObjId(obj_name)]["type"] = "mesh"
              /\ already_exported[ObjId(obj_name)]["name"] = obj_name

\* the material Fog was converted and a mesh named Fog was exported after it:
\* the cache holds the descriptor of the material and that of the mesh
C19_Witness ==
    /\ pc = "surfaces stored"
    /\ MatId(Fog) \in DOMAIN already_exported
    /\ ObjId(<<"Fog">>) \in DOMAIN already_exported
    /\ already_exported[MatId(Fog)]["type"] = "transparent"
    /\ already_exported[MatId(Fog)]["interior medium"] = Str(<<"Fog", " ", "volume">>)
    /\ already_exported[ObjId(<<"Fog">>)]["type"] = "mesh"
    /\ already_exported[ObjId(<<"Fog">>)]["name"] = <<"Fog">>
    /\ Len(data_all["surfaces"]) = 2

(***************************************************************************)
(* Properties of the descriptors under a mix or add descriptor             *)
(***************************************************************************)
\* the keys under which a descriptor holds another material descriptor
NestingKeys == {"a", "b", "nested", "both sides"}

\* neither the descriptor nor a descriptor inside it carries a name
RECURSIVE Nameless(_)
Nameless(d) ==
    /\ "name" \notin DOMAIN d
    /\ \A key \in DOMAIN d \cap NestingKeys : Nameless(d[key])

\* the descriptor carries the name, or no name when none was given, and no
\* descriptor inside it carries one
NamedOnTop(d, name) ==
    /\ IF name = <<>> THEN "name" \notin DOMAIN d
       ELSE "name" \in DOMAIN d /\ d["name"] = material_name(name[1])
    /\ \A key \in DOMAIN d \cap NestingKeys : Nameless(d[key])

\* C21: in the descriptor that cycles_surface_to_dict returns, the descriptors
\* of the branches of a mix or add node, at every depth, carry no name, and
\* the conversion records nothing in ctx.already_exported; the name that was
\* given is on the outermost descriptor only.
C21_BranchesUnnamed ==
    SurfaceConverted =>
        /\ NamedOnTop(result.val, subject.name)
        /\ already_exported = <<>>

\* a mix one of whose branches is a mix was converted under a name: the
\* descriptor has a mix descriptor under b, which has branches of its own
C21_Witness ==
    /\ SurfaceConverted
    /\ subject.node \in NestedNodes
    /\ subject.name # <<>>
    /\ result.val["type"] = "mix"
    /\ result.val["name"] = <<"Metal", "_", "A">>
    /\ result.val["b"]["type"] = "mix"
    /\ IsDict(result.val["b"]["b"])
    /\ "name" \notin DOMAIN result.val["b"]["a"]

(***************************************************************************)
(* Properties of the normal map and bump map wrappers                      *)
(***************************************************************************)
\* the Normal input of the surface node leads, through reroutes or none, to
\* a node of the kind
NormalDrivenBy(node, kind) ==
    /\ "Normal" \in DOMAIN node.inputs
    /\ Reaches(node.inputs["Normal"])
    /\ TargetNode(node.inputs["Normal"]).bl_idname = kind

\* the result is one wrapper of the type around the descriptor bare, which
\* is no wrapper; the wrapper took the name of bare
WrappedOnce(bare, type) ==
    /\ ~Failed(result)
    /\ result.val["type"] = type
    /\ bare.val["type"] \notin MapTypes
    /\ result.val["nested"] = Without(bare.val, "name")
    /\ ("name" \in DOMAIN bare.val) =>
          "name" \in DOMAIN result.val /\ result.val["name"] = bare.val["name"]

\* what the conversion of the surface node came to, where bare is what the
\* node converts to when both use_normal_maps and use_bump_maps are off
WrapsAs(bare) ==
    LET node == subject.node
        n == TargetNode(node.inputs["Normal"])
    IN  IF Failed(bare) THEN result = bare
        ELSE IF n.bl_idname = "ShaderNodeNormalMap"
        THEN IF ~ctx.use_normal_maps THEN result = bare
             ELSE IF n.space = "TANGENT" THEN WrappedOnce(bare, "normal map")
             ELSE result.exc = "NotImplementedError"
        ELSE IF ctx.use_bump_maps THEN WrappedOnce(bare, "bump map")
             ELSE result = bare

\* C22: a surface node whose Normal input leads to a normal map node converts
\* to one "normal map" wrapper around its descriptor when use_normal_maps is
\* on and the space is TANGENT, fails when use_normal_maps is on and the space
\* is another, and converts to its bare descriptor when use_normal_maps is
\* off; one whose Normal input leads to a bump node converts to one
\* "bump map" wrapper when use_bump_maps is on and to its bare descriptor when
\* it is off.  The descriptor inside a wrapper is never a wrapper.
C22_OneWrapper ==
    (/\ pc = "converted"
     /\ "node" \in DOMAIN subject
     /\ \/ NormalDrivenBy(subject.node, "ShaderNodeNormalMap")
        \/ NormalDrivenBy(subject.node, "ShaderNodeBump")) =>
        WrapsAs(cycles_surface_to_dict(
                  [ctx EXCEPT !.use_normal_maps = FALSE, !.use_bump_maps = FALSE],
                  subject.node, subject.name))

\* a glossy node whose Normal input leads through a reroute to a bump node
\* was converted with use_bump_maps on and use_normal_maps off
C22_Witness ==
    /\ SurfaceConverted
    /\ subject.node.bl_idname = "ShaderNodeBsdfGlossy"
    /\ subject.node.inputs["Normal"] = Via(1, Linked(BumpNode, "Normal"))
    /\ ctx.use_bump_maps
    /\ ~ctx.use_normal_maps
    /\ result.val["type"] = "bump map"
    /\ result.val["nested"]["type"] \notin MapTypes

(***************************************************************************)
(* Properties of the conversion of a glossy node                           *)
(***************************************************************************)
GlossyKinds == {"ShaderNodeBsdfGlossy", "ShaderNodeBsdfAnisotropic"}

\* a glossy node whose Normal input is not linked was converted, or its
\* conversion raised
GlossyVisited ==
    /\ pc = "converted"
    /\ "node" \in DOMAIN subject
    /\ subject.node.bl_idname \in GlossyKinds
    /\ ~is_linked(subject.node.inputs["Normal"])

\* the conversion of the node reported no more warnings than one conversion
\* of its Roughness input and one of its Color input report
ReportedOnce(roughness, col) == result.warn <= roughness.warn + col.warn

\* C23: the conversion of a glossy node converts its Roughness input at most
\* once in every glossy mode: what the conversion of that input reports is
\* reported once.
C23_RoughnessOnce ==
    GlossyVisited =>
        ReportedOnce(convert_texture_node(ctx, subject.node.inputs["Roughness"]),
                     convert_texture_node(ctx, subject.node.inputs["Color"]))

(***************************************************************************)
(* Properties of the conversion of a layer weight node                     *)
(***************************************************************************)
\* the socket was converted, or its conversion raised, and its link ends at
\* a layer weight node
LayerWeightVisited ==
    /\ pc = "converted"
    /\ "links" \in DOMAIN subject
    /\ Reaches(subject)
    /\ TargetNode(subject).bl_idname = "ShaderNodeLayerWeight"

\* i is 1 / max(1 - blend, 1e-5) in tenths, blend being in tenths
IsLayerWeightIor(i, blend) ==
    IF 10 - blend > 0
    THEN i * (10 - blend) <= 100 /\ 100 < (i + 1) * (10 - blend)
    ELSE i = 1000000

\* what the three kinds of output of the node convert to, blend being the
\* conversion of the Blend input
LayerWeightOutput(blend) ==
    LET node == TargetNode(subject)
        out == follow_link(subject).links[1].from_socket
    IN  CASE out = "Fresnel" ->
               /\ ~Failed(result)
               /\ DOMAIN result.val = {"type", "ior"}
               /\ result.val["type"] = "fresnel"
               /\ IsNum(result.val["ior"])
               /\ IsLayerWeightIor(result.val["ior"].n,
                                   node.inputs["Blend"].default_value.n)
          [] out = "Facing" ->
               IF Failed(blend) THEN result.exc = blend.exc
               ELSE /\ ~Failed(result)
                    /\ result.val = [type |-> "facing", blend |-> blend.val]
          [] OTHER -> result.exc = "NotImplementedError"

\* C24 as the specification states it: what a socket driven by a layer
\* weight node converts to depends on the output that is read alone: a
\* fresnel descriptor with ior 1 / max(1 - blend, 1e-5) for Fresnel, a facing
\* descriptor with the converted Blend input for Facing, a failure for an
\* output of another name.
C24_AsStated ==
    LayerWeightVisited =>
        LayerWeightOutput(convert_texture_node(ctx, TargetNode(subject).inputs["Blend"]))

\* C24, amended: that holds while enable_layer_weight is on; while it is off
\* every output of the node, whatever its name, converts to the scalar 0.5.
C24_LayerWeightOutputs ==
    LayerWeightVisited =>
        IF enabled(ctx, "layer_weight")
        THEN LayerWeightOutput(
               convert_texture_node(ctx, TargetNode(subject).inputs["Blend"]))
        ELSE result = Ok(Num(5))

\* the Fresnel output of a layer weight node with a Blend of 1 was converted
\* with enable_layer_weight on: the divisor was replaced by 1e-5
C24_Witness ==
    /\ LayerWeightVisited
    /\ enabled(ctx, "layer_weight")
    /\ follow_link(subject).links[1].from_socket = "Fresnel"
    /\ TargetNode(subject).inputs["Blend"] = Float(10)
    /\ result = Ok([type |-> "fresnel", ior |-> Num(1000000)])

(***************************************************************************)
(* Properties of the media of the materials                                *)
(***************************************************************************)
\* the media of the list that carry the name
MediaNamed(list, name) ==
    {j \in 1..Len(list) : "name" \in DOMAIN list[j] /\ list[j]["name"] = name}

\* C25: when materials.export has returned, every "interior medium" field of
\* a descriptor of its list of materials is the name of exactly one medium
\* of its list of media.
C25_InteriorMediaResolve ==
    pc = "exported" =>
        \A i \in 1..Len(mats) :
            "interior medium" \in DOMAIN mats[i] =>
                Cardinality(MediaNamed(media, mats[i]["interior medium"].s)) = 1

(***************************************************************************)
(* Properties of the names of the converted materials                      *)
(***************************************************************************)
\* C26: the descriptor that materials.export appends for a material in CONVERT
\* mode carries the name material_name(name_full) of the material, whichever
\* path of convert_material produced it.
C26_ConvertedNamed ==
    (ctx.material_mode = "CONVERT" /\ JustConverted /\ ~Failed(result)) =>
        /\ mats[Len(mats)] = result.val.mat
        /\ "name" \in DOMAIN result.val.mat
        /\ result.val.mat["name"] = material_name(subject.name_full)

(***************************************************************************)
(* Properties of the media of the document                                 *)
(***************************************************************************)
\* C27: every element of the "media" list of the document is a medium
\* descriptor, a mapping with a type, whether it comes from a material or is
\* the medium of the world.
C27_MediaAreDescriptors ==
    "media" \in DOMAIN data_all =>
        \A i \in 1..Len(data_all["media"]) : IsDict(data_all["media"][i])

\* the descriptor of the node itself: what the two-sided adapter is around
\* when there is one
Inner(d) == IF d["type"] = "two sided" THEN d["both sides"] ELSE d

\* C28: in phong and in blinn-phong mode a glossy node whose Roughness is a
\* literal converts for every value of it, 0 included: to {type: metal,
\* roughness: 0} when the distribution is SHARP or the exponent is not
\* positive, and to the phong or blinn-phong descriptor with the exponent
\* otherwise.
C28_PhongEveryRoughness ==
    (/\ GlossyVisited
     /\ ctx.glossy_mode \in {"phong", "blinn-phong"}
     /\ ~is_linked(subject.node.inputs["Roughness"])) =>
        /\ ~Failed(result)
        /\ LET d == Inner(result.val)
           IN  IF subject.node.distribution = "SHARP" \/ "exponent" \notin DOMAIN d
               THEN d["type"] = "metal" /\ d["roughness"] = Num(0)
               ELSE d["type"] = ctx.glossy_mode /\ d["exponent"].num > 0

(***************************************************************************)
(* Properties of a material whose volume is not supported                  *)
(***************************************************************************)
\* the materials whose surface converts and whose volume node is of a kind
\* that the volume dispatch table lacks
UnsupportedVolumeMaterials == {MixedFog, Frosted}

\* convert_material returned the placeholder of the material and no medium,
\* and materials.export recorded no medium for it
PlaceholderAlone ==
    /\ ~Failed(result)
    /\ result.val.mat = DummyOf(subject)
    /\ "interior medium" \notin DOMAIN result.val.mat
    /\ result.val.media = NoneV
    /\ MediaNamed(media, material_name(MediumName(subject))) = {}

\* C29 as the specification states it: when the surface of a material
\* converts and its volume node fails as unsupported, convert_material
\* returns the placeholder without an "interior medium" field and no medium,
\* and exactly one warning is reported for the material.
C29_AsStated ==
    (JustConverted /\ subject \in UnsupportedVolumeMaterials) =>
        /\ PlaceholderAlone
        /\ result.warn = 1

\* the surface converted, and the result reports one warning more than it
OneWarningAfter(surface) == ~Failed(surface) /\ result.warn = surface.warn + 1

\* C29, amended: convert_material returns the placeholder without an
\* "interior medium" field and no medium, and reports exactly one warning
\* for the failure, after the warnings that the conversion of the surface
\* reported; it is the only warning when the surface reported none.
C29_SurfaceDiscarded ==
    (JustConverted /\ subject \in UnsupportedVolumeMaterials) =>
        /\ PlaceholderAlone
        /\ OneWarningAfter(cycles_surface_to_dict(ctx, SurfaceNodeOf(subject),
                                                  <<subject.name_full>>))
        /\ subject = MixedFog => result.warn = 1

\* the glass surface of Frosted converted with a warning and its volume
\* failed: the material was converted to the placeholder with two warnings
C29_Witness ==
    /\ JustConverted
    /\ subject = Frosted
    /\ result.val.mat = DummyOf(Frosted)
    /\ result.val.media = NoneV
    /\ result.warn = 2
    /\ mats[Len(mats)] = DummyOf(Frosted)

(***************************************************************************)
(* Properties of the materials of the volume objects                       *)
(***************************************************************************)
\* convert_nanovdb was applied to the volume object
NanovdbVisited == pc \in {"volume material", "volumes exported", "volumes aborted"}

\* C30: for every volume object convert_nanovdb returns a material
\* descriptor, a mapping with a type: it raises nothing, and it does not
\* return None; when the conversion of the material fails as unsupported the
\* descriptor is the dummy placeholder, after a warning.
C30_VolumeMaterialDescribed ==
    NanovdbVisited =>
        /\ ~Failed(result)
        /\ IsDict(result.val)
        /\ pc = "volumes exported" => IsDict(volumes_json[1]["material"])
====
